---- MODULE Spec2Model ----
(***************************************************************************)
(* llm-router: the chat client (frontend/src: ChatInterface, MessageInput, *)
(* store, api) together with the backend it talks to.  The client is       *)
(* translated from the TypeScript sources; the backend (FastAPI, not part  *)
(* of the TypeScript sources) is modelled from the orchestration           *)
(* specification: exchanges with a status, a usage ledger, plain reads.    *)
(***************************************************************************)
EXTENDS Integers, Sequences, FiniteSets, TLC

\* ------------------------------------------------------------------ bounds
MaxMsgs == 1       \* messages sent in one run of Spec (both modes, every fault)
MaxReq == 2        \* messages sent in one run of SpecResume (background, no fault)
MaxTokens == 2     \* tokens a provider emits for one exchange
MaxPolls == 2      \* poll loops alive at the same time
MaxChunk == 9      \* bytes one reader.read() returns in SpecSSE
MaxNotes == 1      \* command confirmations on display beyond which SpecCmd takes no command
MaxSys == 1        \* system texts queued, in flight or stored beyond which SpecSys takes no /system

Reqs == 1..MaxReq
NoConv == 0        \* currentConversation === null / conversation_id: null
Null == -1         \* temperature === null (field omitted from the body)

\* ------------------------------------------------------------------ data
\* Message.content: the streamed tokens plus what the code puts around them
\* ('' | 'Queued...' | `${streamed}\n\nError: ${error}` | user text).
Content(toks, note) == [toks |-> toks, note |-> note]

Message(role, ex, status, content) ==
  [role |-> role, ex |-> ex, status |-> status, content |-> content]

\* The catalog the backend serves (GET /api/usage/models); lname is
\* name.toLowerCase(), word by word.
ServerCatalog ==
  << [id |-> "gpt-5.1", name |-> "GPT-5.1", lname |-> <<"gpt-5.1">>, available |-> TRUE,
      reasoning_levels |-> <<"low", "medium", "high">>, supports_temperature |-> TRUE],
     [id |-> "o3", name |-> "o3", lname |-> <<"o3">>, available |-> TRUE,
      reasoning_levels |-> <<"medium", "high">>, supports_temperature |-> FALSE],
     [id |-> "claude-3-5-sonnet-20240620", name |-> "Claude 3.5 Sonnet",
      lname |-> <<"claude", "3.5", "sonnet">>, available |-> FALSE,
      reasoning_levels |-> <<>>, supports_temperature |-> TRUE] >>

ServerDefaults == [model |-> "gpt-5.1", reasoning |-> "low", temperature |-> 20]

\* createChatInterface, catch branch: the built-in catalog.
FallbackCatalog ==
  << [id |-> "gpt-5.1", name |-> "GPT-5.1", lname |-> <<"gpt-5.1">>, available |-> TRUE,
      reasoning_levels |-> <<"low", "medium", "high">>, supports_temperature |-> TRUE] >>

FallbackDefaults == [model |-> "gpt-5.1", reasoning |-> "low", temperature |-> 20]

\* catalogDefaults = null
NoDefaults == [model |-> "", reasoning |-> "", temperature |-> Null]

VARIABLES
  store,            \* AppState (state/store.ts)
  localStorage,     \* the keys the store persists
  models,           \* ChatInterface: let models
  catalogDefaults,  \* ChatInterface: let catalogDefaults
  polls,            \* the poll closures created by startPolling
  pollTimer,        \* ChatInterface: let pollTimer (index of the loop that set it last)
  sysCall,          \* the api.appendSystemText call in flight, if any
  req,              \* per accepted message: the request on the wire and its handler
  nreq,             \* messages handed to handleSendMessage so far
  exchanges,        \* backend: the exchange created for each request
  ledger,           \* backend: exchanges with a usage record
  prompts           \* backend: the system prompt of each conversation

vars == <<store, localStorage, models, catalogDefaults, sysCall, polls, pollTimer,
          req, nreq, exchanges, ledger, prompts>>

clientVars == <<store, localStorage, models, catalogDefaults, sysCall, polls, pollTimer>>
serverVars == <<exchanges, ledger, prompts>>

\* ------------------------------------------------------------------ store
\* The operators below take and return w = [store, localStorage].
World == [store |-> store, localStorage |-> localStorage]

setConversations(w, ids) == [w EXCEPT !.store.conversations = ids]

\* Mutant of setCurrentConversation: the id is not written to localStorage.
setCurrentConversation_NotStored(w, id, msgs) ==
  [w EXCEPT !.store.currentConversation = id, !.store.messages = msgs]

setCurrentConversation(w, id, msgs) ==
  [store |-> [w.store EXCEPT !.currentConversation = id, !.messages = msgs],
   localStorage |-> [w.localStorage EXCEPT !.currentConversationId = id]]

addMessage(w, m) ==
  [w EXCEPT !.store.messages = Append(@, m)]

setSelectedModel(w, m) ==
  [store |-> [w.store EXCEPT !.selectedModel = m],
   localStorage |-> [w.localStorage EXCEPT !.selectedModel = m]]

setTemperature(w, v) ==
  [store |-> [w.store EXCEPT !.temperature = v],
   localStorage |-> [w.localStorage EXCEPT !.temperature = v]]

setReasoning(w, v) ==
  [store |-> [w.store EXCEPT !.reasoning = v],
   localStorage |-> [w.localStorage EXCEPT !.reasoning = v]]

setUsage(w, u) == [w EXCEPT !.store.usage = u]

\* createProxy's set trap: target[property] = value; this.notify().  The
\* state is the proxy, so each assignment of a Store method to a property
\* of this.state calls the listeners, and the method's own this.notify()
\* calls them once more.  What the listeners read at each of the calls made
\* while setCurrentConversation(conversation) runs:
notifyCurrentConversation(st, id, msgs) ==
  LET s1 == [st EXCEPT !.currentConversation = id]
      s2 == [s1 EXCEPT !.messages = msgs]
  IN << s1, s2, s2 >>

\* The same for setUsage(usage): this.state.usageOverall = usage.overall;
\* this.state.usageDevice = usage.device; this.notify().  store.usage stands
\* for the two summaries of one response.
notifyUsage(st, u) ==
  LET s0 == [usageOverall |-> st.usage, usageDevice |-> st.usage]
      s1 == [s0 EXCEPT !.usageOverall = u]
      s2 == [s1 EXCEPT !.usageDevice = u]
  IN << s1, s2, s2 >>

setStreaming(w, b) == [w EXCEPT !.store.isStreaming = b]

\* setError(null) is setError("")
setError(w, e) == [w EXCEPT !.store.error = e]

\* Not in the sources at hand (the store of this revision is missing):
\* by its name and its caller, it rewrites the last message of the list.
setLastMessageStatus(w, status, content) ==
  LET n == Len(w.store.messages) IN
  IF n = 0 THEN w
  ELSE [w EXCEPT !.store.messages[n].status = status,
                 !.store.messages[n].content = content]

clearSystemText(w) == [w EXCEPT !.store.pendingSystem = <<>>]

\* Not in the sources at hand either: the text joins what is queued already.
appendSystemText(w, text) == [w EXCEPT !.store.pendingSystem = Append(@, text)]

setSystemUpdating(w, b) == [w EXCEPT !.store.systemUpdating = b]

\* store.ts, module initialisation: the state a page load starts from.
InitialStore(ls) ==
  [conversations |-> {},
   currentConversation |-> NoConv,
   messages |-> <<>>,
   selectedModel |-> IF ls.selectedModel = "" THEN "gpt-5.1" ELSE ls.selectedModel,
   temperature |-> IF ls.temperature = Null THEN 20 ELSE ls.temperature,
   reasoning |-> IF ls.reasoning = "" THEN "low" ELSE ls.reasoning,
   pendingSystem |-> <<>>,
   systemUpdating |-> FALSE,
   usage |-> {},
   isStreaming |-> FALSE,
   error |-> ""]

\* render -> inputArea.setDisabled(state.isStreaming || state.systemUpdating);
\* updateSendState: sendButton.disabled = locked || !hasValue.
SendDisabled == store.isStreaming \/ store.systemUpdating

\* ------------------------------------------------------------------ backend
\* The exchange row of request r; status "none" while the request has not
\* been accepted.
NoExchange == [conv |-> NoConv, status |-> "none", content |-> <<>>]

Terminal(status) == status \in {"complete", "error"}
NonTerminal(status) == status \in {"pending", "streaming"}

\* A deleted conversation keeps its row with status "deleted" (its id is
\* not given again); the row of a copy made of a conversation without
\* finished exchange has status "empty".
ServerConvs ==
  {exchanges[r].conv : r \in {x \in Reqs : exchanges[x].status \notin {"none", "deleted"}}}

\* The id the backend gives to the next conversation it creates.
NextConvId ==
  Cardinality({exchanges[r].conv : r \in {x \in Reqs : exchanges[x].status # "none"}}) + 1

\* Conversation c can be read, written to, copied and deleted.
Exists(c) == c \in ServerConvs

UserMsg(r) == Message("user", r, "none", Content(<<>>, "text"))

\* The assistant message the backend returns for exchange r.
ServerMsg(r) ==
  Message("assistant", r, exchanges[r].status,
          Content(exchanges[r].content,
                  IF exchanges[r].status = "error" THEN "error" ELSE "none"))

RECURSIVE ConvMessagesUpTo(_, _)
ConvMessagesUpTo(c, n) ==
  IF n = 0 THEN <<>>
  ELSE ConvMessagesUpTo(c, n - 1) \o
       (IF exchanges[n].status \notin {"none", "deleted", "empty"} /\ exchanges[n].conv = c
          THEN <<UserMsg(n), ServerMsg(n)>> ELSE <<>>)

\* GET /api/conversations: the list the sidebar shows.
getConversations == ServerConvs

\* GET /api/conversations/{id}: a plain read of the conversation's messages.
getConversation(c) == ConvMessagesUpTo(c, MaxReq)

\* GET /api/usage/summary: the exchanges the totals are made of.
getUsageSummary == ledger

CreateExchange(r) ==
  [conv |-> IF req[r].body.conversation_id = NoConv THEN NextConvId
            ELSE req[r].body.conversation_id,
   status |-> "pending", content |-> <<>>]

\* The system prompts once chat request r is accepted: the system text the
\* request carries is appended to the prompt of its conversation.
AcceptSystemText(r) ==
  LET c == CreateExchange(r).conv IN
  IF req[r].body.has_system_text
    THEN [prompts EXCEPT ![c] = @ \o req[r].body.system_text]
    ELSE prompts

\* POST /api/conversations/{id}/system: the text is appended to the prompt.
SrvAppendSystemText(c, text) == [prompts EXCEPT ![c] = Append(@, text)]

\* Streaming mode: pending -> streaming when the token channel opens.
SrvStartStreaming(r) ==
  /\ req[r].mode = "stream"
  /\ exchanges[r].status = "pending"
  /\ exchanges' = [exchanges EXCEPT ![r].status = "streaming"]
  /\ UNCHANGED <<clientVars, req, nreq, ledger, prompts>>

\* The provider emits its next token; the partial content grows.
SrvToken(r) ==
  /\ exchanges[r].status = "streaming"
  /\ Len(exchanges[r].content) < MaxTokens
  /\ exchanges' = [exchanges EXCEPT ![r].content = Append(@, Len(@) + 1)]
  /\ UNCHANGED <<clientVars, req, nreq, ledger, prompts>>

FullContent == [i \in 1..MaxTokens |-> i]

\* Finalize: final content, status complete and the usage record in one update.
SrvComplete(r) ==
  /\ \/ req[r].mode = "stream" /\ exchanges[r].status = "streaming"
     \/ req[r].mode = "submit" /\ exchanges[r].status = "pending"
  /\ exchanges' = [exchanges EXCEPT ![r].status = "complete",
                     ![r].content = IF req[r].mode = "submit" THEN FullContent ELSE @]
  /\ ledger' = ledger \cup {r}
  /\ UNCHANGED <<clientVars, req, nreq, prompts>>

\* Provider failure: status error, partial content kept, no usage record.
SrvFail(r) ==
  /\ NonTerminal(exchanges[r].status)
  /\ exchanges' = [exchanges EXCEPT ![r].status = "error"]
  /\ UNCHANGED <<clientVars, req, nreq, ledger, prompts>>

\* ------------------------------------------------------------------ api.ts
\* JSON.stringify({message, model, conversation_id, ...(temperature !== null ?
\* {temperature} : {}), ...(reasoning ? {reasoning} : {}), ...(systemText ?
\* {system_text: systemText} : {})}): a field is present or absent.
chatBody(model, conversationId, temperature, reasoning, systemText) ==
  [model |-> model,
   conversation_id |-> conversationId,
   has_temperature |-> temperature # Null,
   temperature |-> temperature,
   has_reasoning |-> reasoning # "",
   reasoning |-> reasoning,
   has_system_text |-> systemText # <<>>,
   system_text |-> systemText]

\* No api.appendSystemText call in flight.
NoCall == [conv |-> NoConv, text |-> <<>>]

NoBody == chatBody("", NoConv, Null, "", <<>>)

\* JSON.stringify({prompt, model, size, conversation_id}) of api.generateImage
imageBody(prompt, model, size, conversationId) ==
  [prompt |-> prompt, model |-> model, size |-> size, conversation_id |-> conversationId]

NoImage == imageBody(<<>>, "", "", NoConv)

\* A message handed to handleSendMessage: what went on the wire for it and
\* where its handler stands.
NoReq ==
  [mode |-> "none", online |-> FALSE, visible |-> FALSE, body |-> NoBody, image |-> NoImage,
   nStream |-> 0, nSubmit |-> 0,
   pc |-> "idle", oc |-> "none", streamed |-> <<>>,
   rd |-> 0, dec |-> <<>>, buffer |-> <<>>]

\* ------------------------------------------------------------------ the event stream
\* Bytes on the wire and characters after decoding.  A syntax character is
\* one byte; the text of an even-numbered token is one character of two
\* bytes (a lead byte, then the byte that carries the token).
Sym(c) == [c |-> c, t |-> 0]
Lead == [c |-> "lead", t |-> 0]
Byte(t) == [c |-> "byte", t |-> t]
Chr(t) == [c |-> "chr", t |-> t]
NL == Sym("\n")

TokenBytes(t) == IF t % 2 = 0 THEN <<Lead, Byte(t)>> ELSE <<Byte(t)>>

\* One server-sent event: `data: ${JSON}\n\n`
EventBytes(payload) ==
  <<Sym("da"), Sym("ta: "), Sym("{")>> \o payload \o <<Sym("}"), NL, NL>>

RECURSIVE TokenEvents(_)
TokenEvents(toks) ==
  IF toks = <<>> THEN <<>>
  ELSE EventBytes(TokenBytes(Head(toks))) \o TokenEvents(Tail(toks))

\* What the backend has written to the response body of exchange e so far.
Wire(e) ==
  TokenEvents(e.content)
    \o (IF e.status = "complete" THEN EventBytes(<<Sym("done")>>) ELSE <<>>)
    \o (IF e.status = "error" THEN EventBytes(<<Sym("error")>>) ELSE <<>>)

\* decoder.decode(value, { stream: true }): a lead byte at the end of a chunk
\* is kept for the next call; a lead byte and the byte after it are one
\* character.
RECURSIVE DecodeBytes(_)
DecodeBytes(bytes) ==
  IF bytes = <<>> THEN <<>>
  ELSE IF Head(bytes) = Lead
    THEN IF Len(bytes) >= 2 THEN <<Chr(bytes[2].t)>> \o DecodeBytes(Tail(Tail(bytes)))
         ELSE <<Sym("bad")>>
  ELSE IF Head(bytes).c = "byte" THEN <<Chr(Head(bytes).t)>> \o DecodeBytes(Tail(bytes))
  ELSE <<Head(bytes)>> \o DecodeBytes(Tail(bytes))

decode(pending, value) ==
  LET bytes == pending \o value
      hold == bytes # <<>> /\ bytes[Len(bytes)] = Lead
  IN [text |-> DecodeBytes(IF hold THEN SubSeq(bytes, 1, Len(bytes) - 1) ELSE bytes),
      pending |-> IF hold THEN <<Lead>> ELSE <<>>]

\* buffer.split('\n')
RECURSIVE split(_)
split(text) ==
  IF \E k \in 1..Len(text) : text[k] = NL
    THEN LET k == CHOOSE i \in 1..Len(text) :
                    text[i] = NL /\ \A j \in 1..(i - 1) : text[j] # NL
         IN <<SubSeq(text, 1, k - 1)>> \o split(SubSeq(text, k + 1, Len(text)))
    ELSE <<text>>

\* Mutant of carry: the partial line at the end of a chunk is not kept.
carry_Dropped(lines) == <<>>

\* buffer = lines.pop() || ''
carry(lines) == lines[Len(lines)]

\* line.startsWith('data: ')
startsWithData(line) ==
  Len(line) >= 2 /\ line[1] = Sym("da") /\ line[2] = Sym("ta: ")

\* JSON.parse(line.slice(6)), and which of data.token, data.done, data.error
\* is set.
parseData(line) ==
  LET json == SubSeq(line, 3, Len(line)) IN
  IF Len(json) = 3 /\ json[1] = Sym("{") /\ json[3] = Sym("}")
    THEN IF json[2].c = "chr" THEN [kind |-> "token", token |-> json[2].t]
         ELSE IF json[2] = Sym("done") THEN [kind |-> "done", token |-> 0]
         ELSE IF json[2] = Sym("error") THEN [kind |-> "error", token |-> 0]
         ELSE [kind |-> "throw", token |-> 0]
    ELSE [kind |-> "throw", token |-> 0]

\* ------------------------------------------------------------------ ChatInterface.ts
ActiveIndex(ms, id) ==
  IF \E i \in 1..Len(ms) : ms[i].id = id
    THEN CHOOSE i \in 1..Len(ms) : ms[i].id = id /\ \A j \in 1..(i - 1) : ms[j].id # id
    ELSE 0

\* Mutant of effectiveTemp: the temperature is sent whatever the model.
effectiveTemp_Always(ms, st) == st.temperature

\* const effectiveTemp = model && !model.supports_temperature ? null : state.temperature
effectiveTemp(ms, st) ==
  LET i == ActiveIndex(ms, st.selectedModel) IN
  IF i # 0 /\ ~ms[i].supports_temperature THEN Null ELSE st.temperature

\* Mutant of effectiveReasoning: the reasoning is sent whatever the model.
effectiveReasoning_Always(ms, st) == st.reasoning

\* const effectiveReasoning = model && model.reasoning_levels.length > 0 ? state.reasoning : ''
effectiveReasoning(ms, st) ==
  LET i == ActiveIndex(ms, st.selectedModel) IN
  IF i # 0 /\ Len(ms[i].reasoning_levels) > 0 THEN st.reasoning ELSE ""

\* Mutant of shouldStream: the visibility of the page is not looked at.
shouldStream_OnlineOnly(online, visible) == online

\* const shouldStream = navigator.onLine && document.visibilityState === 'visible'
shouldStream(online, visible) == online /\ visible

IdlePoll == [conv |-> NoConv, pc |-> "idle"]

HasPending(msgs) == \E i \in 1..Len(msgs) : msgs[i].status = "pending"

\* if (pollTimer) window.clearTimeout(pollTimer): only a timer that has not
\* fired yet is cancelled; a loop whose read is in flight is left alone.
clearPollTimer(ps, pt) ==
  IF pt # 0 /\ ps[pt].pc = "timer" THEN [ps EXCEPT ![pt] = IdlePoll] ELSE ps

FreePoll(ps) == {i \in 1..MaxPolls : ps[i].pc = "idle"}

CanStartPolling(ps, pt) == FreePoll(clearPollTimer(ps, pt)) # {}

\* startPolling(conversationId): pollTimer = window.setTimeout(poll, 1500)
startPolling(ps, pt, c) ==
  LET cleared == clearPollTimer(ps, pt)
      slot == CHOOSE i \in FreePoll(cleared) : \A j \in FreePoll(cleared) : i <= j
  IN [polls |-> [cleared EXCEPT ![slot] = [conv |-> c, pc |-> "timer"]],
      pollTimer |-> slot]

\* checkPendingPoll(): current is store.currentConversation, just loaded.
checkPendingPoll(ps, pt, current, msgs) ==
  IF current # NoConv /\ HasPending(msgs)
    THEN startPolling(ps, pt, current)
    ELSE [polls |-> ps, pollTimer |-> pt]

CanCheckPendingPoll(ps, pt, current, msgs) ==
  (current # NoConv /\ HasPending(msgs)) => CanStartPolling(ps, pt)

\* loadConversations(): the list, then the stored conversation when it is
\* in the list and is not the current one; any failure ends in setError.
loadConversations(w, ok) ==
  LET conversations == getConversations
      w1 == setConversations(w, conversations)
      lastId == w.localStorage.currentConversationId
      exists == lastId # NoConv /\ lastId \in conversations
  IN IF ~ok THEN setError(w, "Failed to load conversations")
     ELSE IF exists /\ w.store.currentConversation # lastId
       THEN setCurrentConversation(w1, lastId, getConversation(lastId))
       ELSE w1

\* loadUsage()
loadUsage(w, ok) ==
  IF ok THEN setUsage(w, getUsageSummary)
  ELSE setError(w, "Failed to load usage stats")

Apply(w) ==
  /\ store' = w.store
  /\ localStorage' = w.localStorage

\* ------------------------------------------------------------------ handleSendMessage
LocalUserMessage(r) == Message("user", r, "none", Content(<<>>, "text"))

\* status: 'streaming', content: ''
StreamingPlaceholder(r) == Message("assistant", r, "streaming", Content(<<>>, "none"))

\* status: 'pending', content: 'Queued...'
PendingPlaceholder(r) == Message("assistant", r, "pending", Content(<<>>, "queued"))

\* The request handleSendMessage puts on the wire: api.streamChat when
\* shouldStream, api.submitChat otherwise.
sendRequest(stream, body) ==
  [NoReq EXCEPT !.mode = IF stream THEN "stream" ELSE "submit",
                !.body = body,
                !.nStream = IF stream THEN 1 ELSE 0,
                !.nSubmit = IF stream THEN 0 ELSE 1,
                !.pc = IF stream THEN "fetch" ELSE "submit"]

\* handleSendMessage(message), up to its first await.  (store.addHistory keeps
\* the typed line for recall with the arrow keys; no handler reads it.)
HandleSendMessage(online, visible) ==
  /\ ~SendDisabled
  /\ nreq < MaxReq
  /\ LET r == nreq + 1
         stream == shouldStream(online, visible)
         body == chatBody(store.selectedModel, store.currentConversation,
                          effectiveTemp(models, store), effectiveReasoning(models, store),
                          store.pendingSystem)
         w1 == addMessage(World, LocalUserMessage(r))
         w2 == addMessage(w1, IF stream THEN StreamingPlaceholder(r) ELSE PendingPlaceholder(r))
         w3 == setError(setStreaming(w2, TRUE), "")
     IN /\ Apply(w3)
        /\ req' = [req EXCEPT ![r] = [sendRequest(stream, body) EXCEPT
                                        !.online = online, !.visible = visible]]
        /\ nreq' = r
  /\ UNCHANGED <<models, catalogDefaults, sysCall, polls, pollTimer, serverVars>>

\* onError: setStreaming(false); setError(error);
\* setLastMessageStatus('error', `${streamed}\n\nError: ${error}`)
onError(w, streamed, error) ==
  setLastMessageStatus(setError(setStreaming(w, FALSE), error),
                       "error", Content(streamed, "error"))

\* Mutant of afterStreamError: a failed stream falls back to a background
\* submit of the same message.
afterStreamError_Resubmit(q) ==
  [q EXCEPT !.mode = "submit", !.pc = "submit", !.nSubmit = @ + 1]

\* Where the handler of a failed stream stands: the error callback returns
\* and nothing is sent again.
afterStreamError(q) == [q EXCEPT !.pc = "failed"]

\* streamChat rejects before any event: fetch throws, !response.ok or no body.
StreamRejected(r) ==
  /\ req[r].mode = "stream" /\ req[r].pc = "fetch"
  /\ Apply(clearSystemText(onError(World, req[r].streamed, "HTTP 500")))
  /\ req' = [req EXCEPT ![r] = afterStreamError(@)]
  /\ UNCHANGED <<models, catalogDefaults, sysCall, polls, pollTimer, nreq, serverVars>>

\* The backend accepts POST /api/chat/stream: the exchange exists, pending,
\* and the response body opens.
StreamAccepted(r) ==
  /\ req[r].mode = "stream" /\ req[r].pc = "fetch"
  /\ req[r].body.conversation_id # NoConv => Exists(req[r].body.conversation_id)
  /\ exchanges' = [exchanges EXCEPT ![r] = CreateExchange(r)]
  /\ req' = [req EXCEPT ![r].pc = "reading"]
  /\ prompts' = AcceptSystemText(r)
  /\ UNCHANGED <<clientVars, nreq, ledger>>

\* (token) => { streamed += token; ... }
onToken(streamed, token) == Append(streamed, token)

\* for (const line of lines) { ... } over the complete lines of a chunk, from
\* line i on.  at = [w, streamed, oc, ended]: the store, the handler's
\* streamed, whether onComplete was started and how streamChat ended, if it
\* did ("returned" after onError(data.error), "threw" out of JSON.parse).
RECURSIVE forLines(_, _, _)
forLines(lines, i, at) ==
  IF i > Len(lines) \/ at.ended # "" THEN at
  ELSE IF ~startsWithData(lines[i]) THEN forLines(lines, i + 1, at)
  ELSE LET data == parseData(lines[i]) IN
    forLines(lines, i + 1,
      CASE data.kind = "token" -> [at EXCEPT !.streamed = onToken(@, data.token)]
        [] data.kind = "done" -> [at EXCEPT !.oc = "getConversation"]
        [] data.kind = "error" ->
             [at EXCEPT !.w = onError(at.w, at.streamed, "provider error"),
                        !.ended = "returned"]
        [] OTHER ->
             [at EXCEPT !.w = onError(at.w, at.streamed, "SyntaxError"),
                        !.ended = "threw"])

\* The bytes of exchange r's response body the client has not read yet.
Unread(r) == SubSeq(Wire(exchanges[r]), req[r].rd + 1, Len(Wire(exchanges[r])))

\* The number of bytes up to the end of the next event.
NextEvent(r) ==
  CHOOSE n \in 2..Len(Unread(r)) :
    /\ Unread(r)[n] = NL /\ Unread(r)[n - 1] = NL
    /\ \A m \in 2..(n - 1) : ~(Unread(r)[m] = NL /\ Unread(r)[m - 1] = NL)

\* One turn of the read loop: reader.read() returns the next n bytes;
\* buffer += decode(value); lines = buffer.split('\n'); buffer = lines.pop();
\* then the complete lines are handled.  When streamChat returns or its catch
\* has run, handleSendMessage goes on to store.clearSystemText().
StreamChunk(r, n) ==
  /\ req[r].pc = "reading"
  /\ n \in 1..Len(Unread(r))
  /\ \E decoded \in {decode(req[r].dec, SubSeq(Unread(r), 1, n))} :
     \E lines \in {split(req[r].buffer \o decoded.text)} :
     \E at \in {forLines(SubSeq(lines, 1, Len(lines) - 1), 1,
                        [w |-> World, streamed |-> req[r].streamed,
                         oc |-> req[r].oc, ended |-> ""])} :
     LET q == [req[r] EXCEPT !.rd = @ + n, !.dec = decoded.pending,
                             !.buffer = carry(lines),
                             !.streamed = at.streamed, !.oc = at.oc]
     IN IF at.ended = ""
          THEN /\ Apply(at.w)
               /\ req' = [req EXCEPT ![r] = q]
          ELSE /\ Apply(clearSystemText(at.w))
               /\ req' = [req EXCEPT ![r] = afterStreamError(q)]
  /\ UNCHANGED <<models, catalogDefaults, sysCall, polls, pollTimer, nreq, serverVars>>

\* reader.read() rejects (the connection drops): catch -> onError(message)
StreamReadFailure(r) ==
  /\ req[r].pc = "reading"
  /\ Apply(clearSystemText(onError(World, req[r].streamed, "network error")))
  /\ req' = [req EXCEPT ![r] = afterStreamError(@)]
  /\ UNCHANGED <<models, catalogDefaults, sysCall, polls, pollTimer, nreq, serverVars>>

\* reader.read() returns done: break, streamChat resolves, clearSystemText().
StreamClosed(r) ==
  /\ req[r].pc = "reading"
  /\ Unread(r) = <<>>
  /\ Apply(clearSystemText(World))
  /\ req' = [req EXCEPT ![r].pc = "closed"]
  /\ UNCHANGED <<models, catalogDefaults, sysCall, polls, pollTimer, nreq, serverVars>>

\* onComplete: await loadConversations(); const conversation = await
\* api.getConversation(data.conversation_id); store.setCurrentConversation(
\* conversation); store.setStreaming(false).  The two reads follow each other
\* and are taken as one step.  A rejected getConversation ends the callback
\* there (nothing catches it).
OnCompleteGetConversation(r, convsOk, ok) ==
  /\ req[r].oc = "getConversation"
  /\ ok => Exists(exchanges[r].conv)
  /\ LET c == exchanges[r].conv
         w1 == loadConversations(World, convsOk)
     IN IF ok
          THEN /\ Apply(setStreaming(setCurrentConversation(w1, c, getConversation(c)), FALSE))
               /\ req' = [req EXCEPT ![r].oc = "loadUsage"]
          ELSE /\ Apply(w1)
               /\ req' = [req EXCEPT ![r].oc = "threw"]
  /\ UNCHANGED <<models, catalogDefaults, sysCall, polls, pollTimer, nreq, serverVars>>

\* onComplete: await loadUsage()
OnCompleteLoadUsage(r, ok) ==
  /\ req[r].oc = "loadUsage"
  /\ Apply(loadUsage(World, ok))
  /\ req' = [req EXCEPT ![r].oc = "end"]
  /\ UNCHANGED <<models, catalogDefaults, sysCall, polls, pollTimer, nreq, serverVars>>

\* ------------------------------------------------------------------ background path
\* catch (error) { store.setStreaming(false); store.setError(...) }
submitCatch(w, error) == setError(setStreaming(w, FALSE), error)

\* Where the handler of a failed submit stands: nothing is sent again.
afterSubmitError(q) == [q EXCEPT !.pc = "failed"]

\* The backend accepts POST /api/chat/submit: the exchange exists, pending,
\* the provider call is dispatched, and the response reaches the client:
\* store.clearSystemText().
SubmitAccepted(r) ==
  /\ req[r].mode = "submit" /\ req[r].pc = "submit"
  /\ req[r].body.conversation_id # NoConv => Exists(req[r].body.conversation_id)
  /\ exchanges' = [exchanges EXCEPT ![r] = CreateExchange(r)]
  /\ prompts' = AcceptSystemText(r)
  /\ Apply(clearSystemText(World))
  /\ req' = [req EXCEPT ![r].pc = "getConversation"]
  /\ UNCHANGED <<models, catalogDefaults, sysCall, polls, pollTimer, nreq, ledger>>

\* submitChat rejects: the backend refused the request (created = FALSE) or
\* the response was lost after the exchange was created (created = TRUE).
SubmitFailed(r, created) ==
  /\ req[r].mode = "submit" /\ req[r].pc = "submit"
  /\ (created /\ req[r].body.conversation_id # NoConv) => Exists(req[r].body.conversation_id)
  /\ exchanges' = IF created THEN [exchanges EXCEPT ![r] = CreateExchange(r)] ELSE exchanges
  /\ prompts' = IF created THEN AcceptSystemText(r) ELSE prompts
  /\ Apply(submitCatch(World, IF created THEN "network error" ELSE "HTTP 500"))
  /\ req' = [req EXCEPT ![r] = afterSubmitError(@)]
  /\ UNCHANGED <<models, catalogDefaults, sysCall, polls, pollTimer, nreq, ledger>>

\* await loadConversations(); const conversation = await
\* api.getConversation(response.conversation_id); store.setCurrentConversation(
\* conversation); startPolling(response.conversation_id).  The two reads are
\* taken as one step; a rejected getConversation goes to the catch.
SubmitGetConversation(r, convsOk, ok) ==
  /\ req[r].mode = "submit" /\ req[r].pc = "getConversation"
  /\ ok => Exists(exchanges[r].conv)
  /\ LET c == exchanges[r].conv
         w1 == loadConversations(World, convsOk)
     IN IF ok
          THEN /\ CanStartPolling(polls, pollTimer)
               /\ Apply(setCurrentConversation(w1, c, getConversation(c)))
               /\ polls' = startPolling(polls, pollTimer, c).polls
               /\ pollTimer' = startPolling(polls, pollTimer, c).pollTimer
               /\ req' = [req EXCEPT ![r].pc = "polling"]
          ELSE /\ Apply(submitCatch(w1, "network error"))
               /\ UNCHANGED <<polls, pollTimer>>
               /\ req' = [req EXCEPT ![r] = afterSubmitError(@)]
  /\ UNCHANGED <<models, catalogDefaults, sysCall, nreq, serverVars>>

\* ------------------------------------------------------------------ startPolling: poll
\* The timer of loop p fires: poll() runs up to await api.getConversation.
PollFire(p) ==
  /\ polls[p].pc = "timer"
  /\ polls' = [polls EXCEPT ![p].pc = "fetch"]
  /\ pollTimer' = IF pollTimer = p THEN 0 ELSE pollTimer
  /\ UNCHANGED <<store, localStorage, models, catalogDefaults, sysCall, req, nreq, serverVars>>

\* Mutant of pollNext: poll() reschedules until every reply is complete
\* (msg.status !== 'complete' instead of === 'pending').
pollNext_UntilComplete(msgs) ==
  IF \E i \in DOMAIN msgs : msgs[i].role = "assistant" /\ msgs[i].status # "complete"
    THEN "timer" ELSE "loadUsage"

\* What poll() does with a conversation it has read.
pollNext(msgs) == IF HasPending(msgs) THEN "timer" ELSE "loadUsage"

\* The read of loop p returns (ok) or rejects (catch: retry in 3000 ms).
PollRead(p, ok) ==
  /\ polls[p].pc = "fetch"
  /\ ok => Exists(polls[p].conv)
  /\ LET c == polls[p].conv
         msgs == getConversation(c)
     IN IF ok
          THEN /\ Apply(IF pollNext(msgs) = "timer"
                          THEN setCurrentConversation(World, c, msgs)
                          ELSE setStreaming(setCurrentConversation(World, c, msgs), FALSE))
               /\ polls' = [polls EXCEPT ![p].pc = pollNext(msgs)]
               /\ pollTimer' = IF pollNext(msgs) = "timer" THEN p ELSE pollTimer
          ELSE /\ UNCHANGED <<store, localStorage>>
               /\ polls' = [polls EXCEPT ![p].pc = "timer"]
               /\ pollTimer' = p
  /\ UNCHANGED <<models, catalogDefaults, sysCall, req, nreq, serverVars>>

\* await loadUsage() at the end of the loop.
PollLoadUsage(p, ok) ==
  /\ polls[p].pc = "loadUsage"
  /\ Apply(loadUsage(World, ok))
  /\ polls' = [polls EXCEPT ![p] = IdlePoll]
  /\ UNCHANGED <<models, catalogDefaults, sysCall, pollTimer, req, nreq, serverVars>>

\* ------------------------------------------------------------------ user actions
\* handleSelectConversation(id) for a row of the sidebar, at the time the
\* read returns.
HandleSelectConversation(id, ok) ==
  /\ id \in store.conversations
  /\ ok => Exists(id)
  /\ IF ok
       THEN LET msgs == getConversation(id) IN
            /\ CanCheckPendingPoll(polls, pollTimer, id, msgs)
            /\ Apply(setCurrentConversation(World, id, msgs))
            /\ polls' = checkPendingPoll(polls, pollTimer, id, msgs).polls
            /\ pollTimer' = checkPendingPoll(polls, pollTimer, id, msgs).pollTimer
       ELSE /\ Apply(setError(World, "Failed to load conversation"))
            /\ UNCHANGED <<polls, pollTimer>>
  /\ UNCHANGED <<models, catalogDefaults, sysCall, req, nreq, serverVars>>

\* DELETE /api/conversations/{id}: the conversation goes with its exchanges.
SrvDelete(c) ==
  [r \in Reqs |-> IF exchanges[r].conv = c /\ exchanges[r].status # "none"
                    THEN [exchanges[r] EXCEPT !.status = "deleted"]
                    ELSE exchanges[r]]

\* handleDeleteConversation(id) for a row of the sidebar: the backend
\* deleted the conversation (deleted) or refused; the response reached the
\* client (ok) or the call rejected.  After the response: loadConversations()
\* and, when the conversation on display is the deleted one,
\* setCurrentConversation(null).  The reads follow the response and are
\* taken as one step with it.
HandleDeleteConversation(id, deleted, ok) ==
  /\ id \in store.conversations
  /\ ok => deleted
  /\ deleted => Exists(id)
  /\ exchanges' = IF deleted THEN SrvDelete(id) ELSE exchanges
  /\ LET listed == getConversations \ (IF deleted THEN {id} ELSE {})
         w1 == setConversations(World, listed)
         lastId == localStorage.currentConversationId
         w2 == IF lastId # NoConv /\ lastId \in listed /\ store.currentConversation # lastId
                 THEN setCurrentConversation(w1, lastId, getConversation(lastId))
                 ELSE w1
     IN Apply(IF ~ok THEN setError(World, "Failed to delete conversation")
              ELSE IF w2.store.currentConversation = id
                THEN setCurrentConversation(w2, NoConv, <<>>)
                ELSE w2)
  /\ UNCHANGED <<models, catalogDefaults, sysCall, polls, pollTimer, req, nreq, ledger, prompts>>

\* The exchange of conversation c a copy takes over: a finished one (a
\* pending or streaming exchange is never copied), 0 when there is none.
Copied(c) ==
  LET done == {r \in Reqs : exchanges[r].conv = c /\ Terminal(exchanges[r].status)} IN
  IF done = {} THEN 0 ELSE CHOOSE r \in done : \A x \in done : r <= x

\* POST /api/conversations/{id}/clone: a new conversation, in row r of the
\* backend, with the finished exchange of c.
SrvClone(c, r) ==
  [exchanges EXCEPT ![r] =
     IF Copied(c) = 0 THEN [conv |-> NextConvId, status |-> "empty", content |-> <<>>]
     ELSE [exchanges[Copied(c)] EXCEPT !.conv = NextConvId]]

\* handleCloneConversation(id): the backend made the copy (created) or
\* refused; the response reached the client (ok) or the call rejected.
\* After the response: loadConversations(), setCurrentConversation(copy).
HandleCloneConversation(id, created, ok) ==
  /\ id \in store.conversations
  /\ ok => created
  /\ created => Exists(id) /\ nreq < MaxReq
  /\ LET r == nreq + 1
         copy == NextConvId
         messages == IF Copied(id) = 0 THEN <<>>
                     ELSE <<UserMsg(r), [ServerMsg(Copied(id)) EXCEPT !.ex = r]>>
         w1 == setConversations(World, getConversations \cup {copy})
     IN /\ exchanges' = IF created THEN SrvClone(id, r) ELSE exchanges
        /\ req' = IF created THEN [req EXCEPT ![r] = [NoReq EXCEPT !.mode = "clone", !.pc = "done"]]
                  ELSE req
        /\ nreq' = IF created THEN r ELSE nreq
        /\ Apply(IF ok THEN setCurrentConversation(w1, copy, messages)
                 ELSE setError(World, "Failed to clone conversation"))
  /\ UNCHANGED <<models, catalogDefaults, sysCall, polls, pollTimer, ledger, prompts>>

\* handleNewChat()
handleNewChat(w, defaults) ==
  LET w1 == setCurrentConversation(w, NoConv, <<>>) IN
  IF defaults = NoDefaults THEN w1
  ELSE setTemperature(setReasoning(setSelectedModel(w1, defaults.model),
                                   defaults.reasoning), defaults.temperature)

HandleNewChat ==
  /\ Apply(handleNewChat(World, catalogDefaults))
  /\ UNCHANGED <<models, catalogDefaults, sysCall, polls, pollTimer, req, nreq, serverVars>>

\* ------------------------------------------------------------------ commands
\* A line typed into the input: words and the runs of blanks between them.
\* A text made of words joined by single blanks is the sequence of its words.
isBlank(x) == x \in {" ", "  ", "\n"}

\* Mutant of toLowerCase: the word as typed.
toLowerCase_Identity(x) == x

\* String.prototype.toLowerCase on the words the model uses.
toLowerCase(x) ==
  CASE x = "/TEMP" -> "/temp"
    [] x = "/Model" -> "/model"
    [] x = "O3" -> "o3"
    [] x = "GPT-5.1" -> "gpt-5.1"
    [] x = "HIGH" -> "high"
    [] x = "/HELP" -> "/help"
    [] x = "Sonnet" -> "sonnet"
    [] x = "/System" -> "/system"
    [] x = "/Reasoning" -> "/reasoning"
    [] x = "/FOO" -> "/foo"
    [] x = "/IMAGE" -> "/image"
    [] OTHER -> x

\* parseCommand(input): null (NoCommand) unless the first word is one of the
\* commands; arg = rest.join(' ').
NoCommand == [id |-> "", arg |-> <<>>]

parseCommand(input) ==
  LET words == SelectSeq(input, LAMBDA x : ~isBlank(x))
      command == toLowerCase(Head(words))
  IN IF input = <<>> \/ isBlank(input[1]) THEN NoCommand
     ELSE IF command \in {"/help", "/model", "/temp", "/reasoning", "/system", "/image"}
       THEN [id |-> command, arg |-> Tail(words)]
       ELSE NoCommand

\* rest.join(' '): the line that the words make when typed with one blank
\* between them.
RECURSIVE join(_)
join(words) ==
  IF Len(words) <= 1 THEN words
  ELSE <<Head(words), " ">> \o join(Tail(words))

\* Number(arg), in hundredths; NaN is not finite.
NaN == [finite |-> FALSE, v |-> 0]

Number(arg) ==
  IF arg = <<>> THEN [finite |-> TRUE, v |-> 0]
  ELSE IF Len(arg) > 1 THEN NaN
  ELSE CASE arg[1] = "0" -> [finite |-> TRUE, v |-> 0]
         [] arg[1] = "0.7" -> [finite |-> TRUE, v |-> 70]
         [] arg[1] = "2" -> [finite |-> TRUE, v |-> 200]
         [] arg[1] = "2.5" -> [finite |-> TRUE, v |-> 250]
         [] arg[1] = "3.0" -> [finite |-> TRUE, v |-> 300]
         [] arg[1] = "-1" -> [finite |-> TRUE, v |-> 0 - 100]
         [] OTHER -> NaN

\* model.id.toLowerCase().includes(normalized)
idIncludes(id, q) ==
  \/ id = q
  \/ id = "gpt-5.1" /\ q \in {"gpt", "5.1"}
  \/ id = "claude-3-5-sonnet-20240620" /\ q \in {"claude", "sonnet"}
  \/ id = "o3-2025-04-16" /\ q \in {"o3", "2025"}
  \/ id = "claude-sonnet-4" /\ q \in {"claude", "sonnet"}

\* The first model for which test holds, 0 when there is none (Array.find).
find(ms, test(_)) ==
  IF \E i \in 1..Len(ms) : test(ms[i])
    THEN CHOOSE i \in 1..Len(ms) : test(ms[i]) /\ \A j \in 1..(i - 1) : ~test(ms[j])
    ELSE 0

\* Mutant of findModel: the first model whose id contains the query.
findModel_ByPart(ms, query) ==
  LET normalized == [i \in 1..Len(query) |-> toLowerCase(query[i])] IN
  IF Len(normalized) # 1 THEN 0
  ELSE find(ms, LAMBDA m : idIncludes(toLowerCase(m.id), normalized[1]))

\* findModel(query): by id, then by name, then by part of the id.
findModel(ms, query) ==
  LET normalized == [i \in 1..Len(query) |-> toLowerCase(query[i])]
      byId == find(ms, LAMBDA m : <<toLowerCase(m.id)>> = normalized)
      byName == find(ms, LAMBDA m : m.lname = normalized)
      byPart == find(ms, LAMBDA m : Len(normalized) = 1 /\ idIncludes(toLowerCase(m.id), normalized[1]))
  IN IF normalized = <<>> THEN 0
     ELSE IF byId # 0 THEN byId
     ELSE IF byName # 0 THEN byName
     ELSE byPart

addSystemMessage(w, content) == addMessage(w, Message("system", 0, "none", content))

\* Mutant of Includes: every level passes for a declared one.
Includes_Always(levels, x) == TRUE

\* reasoning_levels.includes(reasoning)
Includes(levels, x) == \E i \in 1..Len(levels) : levels[i] = x

\* Mutant of handleModelChange: the model is selected and nothing else is touched.
handleModelChange_SelectOnly(w, ms, modelId) == setSelectedModel(w, modelId)

\* handleModelChange(modelId)
handleModelChange(w, ms, modelId) ==
  LET w1 == setSelectedModel(w, modelId)
      i == ActiveIndex(ms, modelId)
      selected == ms[i]
      w2 == IF ~selected.available
              THEN setError(w1, "Model availability is unverified for this API key.")
              ELSE setError(w1, "")
      w3 == IF Len(selected.reasoning_levels) > 0
               /\ ~Includes(selected.reasoning_levels, w2.store.reasoning)
              THEN setReasoning(w2, selected.reasoning_levels[1]) ELSE w2
  IN IF i = 0 THEN w1
     ELSE IF ~selected.supports_temperature THEN setTemperature(w3, 0) ELSE w3

\* Mutant of getReasoningLevels: a model without levels gets the usual three.
getReasoningLevels_Usual(ms, st) ==
  LET i == ActiveIndex(ms, st.selectedModel) IN
  IF i = 0 \/ ms[i].reasoning_levels = <<>> THEN <<"low", "medium", "high">>
  ELSE ms[i].reasoning_levels

\* getReasoningLevels()
getReasoningLevels(ms, st) ==
  LET i == ActiveIndex(ms, st.selectedModel) IN
  IF i = 0 THEN <<>> ELSE ms[i].reasoning_levels

\* Mutant of outOfRange: no upper limit.
outOfRange_NoUpper(value) == ~value.finite \/ value.v < 0

\* !Number.isFinite(value) || value < 0 || value > 2
outOfRange(value) == ~value.finite \/ value.v < 0 \/ value.v > 200

\* handleCommand: /temp <value>
tempCommand(w, ms, arg) ==
  LET i == ActiveIndex(ms, w.store.selectedModel)
      value == Number(arg)
  IN IF i # 0 /\ ~ms[i].supports_temperature
       THEN setError(w, "Temperature not supported for this model.")
     ELSE IF outOfRange(value)
       THEN setError(w, "Temperature must be between 0 and 2.")
     ELSE setError(addSystemMessage(setTemperature(w, value.v),
                                    Content(<<value.v>>, "Temperature set to")), "")

\* handleCommand: /model <name>
modelCommand(w, ms, arg) ==
  LET match == findModel(ms, arg) IN
  IF match = 0 THEN setError(w, "Model not found. Try /model and autocomplete.")
  ELSE addSystemMessage(handleModelChange(w, ms, ms[match].id),
                        Content(<<match>>, "Model set to"))

\* handleCommand: /reasoning <level>
reasoningCommand(w, ms, arg) ==
  LET levels == getReasoningLevels(ms, w.store)
      wanted == [i \in 1..Len(arg) |-> toLowerCase(arg[i])]
      k == IF \E j \in 1..Len(levels) : <<levels[j]>> = wanted
             THEN CHOOSE j \in 1..Len(levels) : <<levels[j]>> = wanted ELSE 0
  IN IF Len(levels) = 0 THEN setError(w, "Reasoning levels not supported for this model.")
     ELSE IF k = 0 THEN setError(w, "Reasoning must be one of the levels.")
     ELSE setError(addSystemMessage(setReasoning(w, levels[k]),
                                    Content(<<k>>, "Reasoning set to")), "")

\* handleCommand: /system <text>.  With a conversation on display the text
\* goes to the backend (systemCall) and the input is locked meanwhile;
\* without one it is queued in the store for the next chat request.
systemCommand(w, arg) ==
  IF arg = <<>> THEN setError(w, "System text cannot be empty.")
  ELSE IF w.store.currentConversation # NoConv
    THEN setSystemUpdating(setError(w, ""), TRUE)
  ELSE setError(addSystemMessage(appendSystemText(w, arg),
                                 Content(<<>>, "System text queued")), "")

\* void api.appendSystemText(conversationId, systemText): the call
\* handleCommand(input) starts, NoCall when it starts none.
systemCall(st, input) ==
  LET parsed == parseCommand(input) IN
  IF parsed.id = "/system" /\ parsed.arg # <<>> /\ st.currentConversation # NoConv
    THEN [conv |-> st.currentConversation, text |-> parsed.arg]
    ELSE NoCall

\* token.startsWith('model=') / token.startsWith('size='): the key of a
\* key=value token, "" for any other word.
keyOf(token) ==
  CASE token \in {"model=dall-e-2", "model=gpt-image-1", "model="} -> "model"
    [] token \in {"size=512x512", "size="} -> "size"
    [] OTHER -> ""

\* token.split('=')[1]
valueOf(token) ==
  CASE token = "model=dall-e-2" -> "dall-e-2"
    [] token = "model=gpt-image-1" -> "gpt-image-1"
    [] token = "size=512x512" -> "512x512"
    [] OTHER -> ""

\* tokens.forEach(...): the last model= and size= with a value win, the
\* other words are the prompt parts.
RECURSIVE forEachToken(_, _)
forEachToken(tokens, acc) ==
  IF tokens = <<>> THEN acc
  ELSE LET token == Head(tokens) IN
    forEachToken(Tail(tokens),
      CASE keyOf(token) = "model" ->
             [acc EXCEPT !.model = IF valueOf(token) # "" THEN valueOf(token) ELSE @]
        [] keyOf(token) = "size" ->
             [acc EXCEPT !.size = IF valueOf(token) # "" THEN valueOf(token) ELSE @]
        [] OTHER -> [acc EXCEPT !.prompt = Append(@, token)])

\* promptParts[0].slice('prompt:'.length) for a first word that starts with
\* 'prompt:' or 'prompt='.
stripped(first) ==
  CASE first = "prompt:cat" -> <<"cat">>
    [] OTHER -> <<>>

\* Mutant of parseImageArgs: without a prompt the word "image" is the prompt.
parseImageArgs_AnyPrompt(raw) ==
  LET parsed == forEachToken(raw, [prompt |-> <<>>, model |-> "dall-e-3", size |-> "1024x1024"])
  IN IF parsed.prompt = <<>> THEN [parsed EXCEPT !.prompt = <<"image">>] ELSE parsed

\* parseImageArgs(raw): raw.split(/\s+/).filter(Boolean) are the words of raw.
parseImageArgs(raw) ==
  LET parsed == forEachToken(raw, [prompt |-> <<>>, model |-> "dall-e-3", size |-> "1024x1024"])
      parts == parsed.prompt
      first == toLowerCase(Head(parts))
  IN IF Len(parts) > 1 /\ first = "prompt"
       THEN [parsed EXCEPT !.prompt = Tail(parts)]
     ELSE IF Len(parts) > 1 /\ first \in {"prompt:", "prompt=", "prompt:cat"}
       THEN [parsed EXCEPT !.prompt = stripped(first) \o Tail(parts)]
     ELSE parsed

\* status: 'pending-image', content: `Prompt: ...\nModel: ...\nSize: ...`
ImagePlaceholder(r) == Message("assistant", r, "pending-image", Content(<<>>, "image"))

\* handleImageCommand(raw), up to its first await.
handleImageCommand(w, r, raw) ==
  IF parseImageArgs(raw).prompt = <<>>
    THEN setError(w, "Image prompt cannot be empty.")
    ELSE setStreaming(addMessage(addMessage(w, Message("user", r, "none", Content(<<>>, "image"))),
                                 ImagePlaceholder(r)), TRUE)

\* api.generateImage(prompt, model, size, state.currentConversation?.id || null)
imageRequest(st, raw) ==
  LET args == parseImageArgs(raw) IN
  [NoReq EXCEPT !.mode = "image", !.pc = "generate",
                !.image = imageBody(args.prompt, args.model, args.size, st.currentConversation)]

\* Mutant of helpCommand: the error on display is left alone.
helpCommand_ErrorKept(w) == addSystemMessage(w, Content(<<>>, "help"))

\* handleCommand: /help.  getCommandHelp() is a constant text.
helpCommand(w) == setError(addSystemMessage(w, Content(<<>>, "help")), "")

\* handleCommand(input), /image apart (handleImageCommand, which goes on
\* asynchronously, is called from HandleCommand).  store.addHistory keeps the typed line for recall with
\* the arrow keys; no handler reads it.
handleCommand(w, ms, input) ==
  LET parsed == parseCommand(input) IN
  CASE parsed = NoCommand -> setError(w, "Unknown command. Type /help.")
    [] parsed.id = "/help" -> helpCommand(w)
    [] parsed.id = "/model" -> modelCommand(w, ms, parsed.arg)
    [] parsed.id = "/temp" -> tempCommand(w, ms, parsed.arg)
    [] parsed.id = "/reasoning" -> reasoningCommand(w, ms, parsed.arg)
    [] parsed.id = "/system" -> systemCommand(w, parsed.arg)

\* MessageInput.handleSend with a line that starts with '/': onCommand(message).
\* handleCommand returns true on every path (parseCommand yields only the six
\* words that have a branch), so handleSend returns without calling onSend.
HandleCommand(input) ==
  /\ ~SendDisabled
  /\ LET parsed == parseCommand(input)
         image == parsed.id = "/image"
         starts == image /\ parseImageArgs(parsed.arg).prompt # <<>>
     IN /\ starts => nreq < MaxReq
        /\ Apply(IF image THEN handleImageCommand(World, nreq + 1, parsed.arg)
                 ELSE handleCommand(World, models, input))
        /\ req' = IF starts THEN [req EXCEPT ![nreq + 1] = imageRequest(store, parsed.arg)]
                  ELSE req
        /\ nreq' = IF starts THEN nreq + 1 ELSE nreq
  /\ sysCall' = IF systemCall(store, input) # NoCall THEN systemCall(store, input) ELSE sysCall
  /\ UNCHANGED <<models, catalogDefaults, polls, pollTimer, serverVars>>

\* POST /api/images/generate is answered: the backend has generated the
\* image and stored the exchange, complete, in the conversation of the
\* request or in a new one.
ImageGenerated(r) ==
  /\ req[r].mode = "image" /\ req[r].pc = "generate"
  /\ req[r].image.conversation_id # NoConv => Exists(req[r].image.conversation_id)
  /\ exchanges' = [exchanges EXCEPT ![r] =
                     [conv |-> IF req[r].image.conversation_id = NoConv THEN NextConvId
                               ELSE req[r].image.conversation_id,
                      status |-> "complete", content |-> <<>>]]
  /\ req' = [req EXCEPT ![r].pc = "getConversation"]
  /\ UNCHANGED <<clientVars, nreq, ledger, prompts>>

\* catch (error) { store.setError(...) } finally { store.setStreaming(false) }
imageCatch(w, error) == setStreaming(setError(w, error), FALSE)

\* api.generateImage rejects: the backend refused the request or the
\* generation failed.
ImageFailed(r) ==
  /\ req[r].mode = "image" /\ req[r].pc = "generate"
  /\ Apply(imageCatch(World, "Image generation failed"))
  /\ req' = [req EXCEPT ![r].pc = "failed"]
  /\ UNCHANGED <<models, catalogDefaults, sysCall, polls, pollTimer, nreq, serverVars>>

\* await loadConversations(); const conversation = await api.getConversation(
\* result.conversation_id); store.setCurrentConversation(conversation);
\* store.setError(null); finally store.setStreaming(false).  The two reads
\* are taken as one step; a rejected getConversation goes to the catch.
ImageGetConversation(r, convsOk, ok) ==
  /\ req[r].mode = "image" /\ req[r].pc = "getConversation"
  /\ ok => Exists(exchanges[r].conv)
  /\ LET c == exchanges[r].conv
         w1 == loadConversations(World, convsOk)
     IN IF ok
          THEN /\ Apply(setStreaming(setError(
                          setCurrentConversation(w1, c, getConversation(c)), ""), FALSE))
               /\ req' = [req EXCEPT ![r].pc = "done"]
          ELSE /\ Apply(imageCatch(w1, "network error"))
               /\ req' = [req EXCEPT ![r].pc = "failed"]
  /\ UNCHANGED <<models, catalogDefaults, sysCall, polls, pollTimer, nreq, serverVars>>

\* api.appendSystemText settles: the backend appended the text (delivered)
\* or never got it; .then adds the confirmation, .catch sets the error,
\* .finally unlocks the input.
AppendSystemTextSettled(delivered, ok) ==
  /\ sysCall # NoCall
  /\ ok => delivered
  /\ prompts' = IF delivered THEN SrvAppendSystemText(sysCall.conv, sysCall.text) ELSE prompts
  /\ Apply(setSystemUpdating(
             IF ok THEN addSystemMessage(World, Content(<<>>, "System text appended"))
                   ELSE setError(World, "Failed to update system text."),
             FALSE))
  /\ sysCall' = NoCall
  /\ UNCHANGED <<models, catalogDefaults, polls, pollTimer, req, nreq, exchanges, ledger>>

\* The model picker: onModelChange(modelId) for a model of the list.
HandleModelChange(i) ==
  /\ i \in 1..Len(models)
  /\ Apply(handleModelChange(World, models, models[i].id))
  /\ UNCHANGED <<models, catalogDefaults, sysCall, polls, pollTimer, req, nreq, serverVars>>

\* ------------------------------------------------------------------ page load
\* Mutant of syncDefaults: the state is taken as it was stored.
syncDefaults_AsStored(w, ms, defaults) == w

\* syncDefaults()
syncDefaults(w, ms, defaults) ==
  IF defaults = NoDefaults THEN w
  ELSE
    LET w1 == IF ActiveIndex(ms, w.store.selectedModel) = 0
                THEN setSelectedModel(w, defaults.model) ELSE w
        w2 == IF w1.store.reasoning = "" THEN setReasoning(w1, defaults.reasoning) ELSE w1
        w3 == IF w2.store.temperature = Null
                THEN setTemperature(w2, defaults.temperature) ELSE w2
        i == ActiveIndex(ms, w3.store.selectedModel)
    IN IF i # 0 /\ Len(ms[i].reasoning_levels) > 0
            /\ ~Includes(ms[i].reasoning_levels, w3.store.reasoning)
         THEN setReasoning(w3, ms[i].reasoning_levels[1])
         ELSE w3

NoPolls == [p \in 1..MaxPolls |-> IdlePoll]

\* createChatInterface(): the catalog (or the built-in one), syncDefaults,
\* loadConversations, loadUsage, checkPendingPoll.  No handler runs before it
\* returns, so it is one step.
LoadPage(ls, ms, defaults, convsOk, usageOk) ==
  LET w0 == [store |-> InitialStore(ls), localStorage |-> ls]
      w1 == syncDefaults(w0, ms, defaults)
      w2 == loadConversations(w1, convsOk)
      w3 == loadUsage(w2, usageOk)
      poller == checkPendingPoll(NoPolls, 0, w3.store.currentConversation, w3.store.messages)
  IN [w |-> w3, models |-> ms, catalogDefaults |-> defaults,
      polls |-> poller.polls, pollTimer |-> poller.pollTimer]

\* api.getModelCatalog() resolves (catalogOk) or the catch branch runs.
PageLoad(ls, catalogOk, convsOk, usageOk) ==
  LoadPage(ls, IF catalogOk THEN ServerCatalog ELSE FallbackCatalog,
           IF catalogOk THEN ServerDefaults ELSE FallbackDefaults, convsOk, usageOk)

\* The page goes away: streams, callbacks and timers of the old page die with it.
killed(q) ==
  [q EXCEPT !.pc = IF @ \in {"fetch", "reading", "submit", "getConversation", "generate"}
                     THEN "killed" ELSE @,
            !.oc = IF @ \in {"getConversation", "loadUsage"}
                     THEN "killed" ELSE @]

Reload(catalogOk, convsOk, usageOk) ==
  /\ LET page == PageLoad(localStorage, catalogOk, convsOk, usageOk) IN
       /\ Apply(page.w)
       /\ models' = page.models
       /\ catalogDefaults' = page.catalogDefaults
       /\ polls' = page.polls
       /\ pollTimer' = page.pollTimer
  /\ req' = [r \in Reqs |-> killed(req[r])]
  /\ sysCall' = NoCall
  /\ UNCHANGED <<nreq, serverVars>>

\* ------------------------------------------------------------------ specification
EmptyStorage ==
  [currentConversationId |-> NoConv, selectedModel |-> "", temperature |-> Null, reasoning |-> ""]

Init ==
  /\ req = [r \in Reqs |-> NoReq]
  /\ nreq = 0
  /\ exchanges = [r \in Reqs |-> NoExchange]
  /\ ledger = {}
  /\ prompts = [c \in Reqs |-> <<>>]
  /\ LET page == PageLoad(EmptyStorage, TRUE, TRUE, TRUE) IN
         /\ store = page.w.store
         /\ localStorage = page.w.localStorage
         /\ models = page.models
         /\ catalogDefaults = page.catalogDefaults
         /\ sysCall = NoCall
         /\ polls = page.polls
         /\ pollTimer = page.pollTimer

\* The steps of the backend.
Backend ==
  \/ \E r \in Reqs : SrvStartStreaming(r)
  \/ \E r \in Reqs : SrvToken(r)
  \/ \E r \in Reqs : SrvComplete(r)
  \/ \E r \in Reqs : SrvFail(r)

\* The poll loops.
Polling(faults) ==
  \/ \E p \in 1..MaxPolls : PollFire(p)
  \/ \E p \in 1..MaxPolls, ok \in BOOLEAN : (ok \/ faults) /\ PollRead(p, ok)
  \/ \E p \in 1..MaxPolls, ok \in BOOLEAN : (ok \/ faults) /\ PollLoadUsage(p, ok)

\* Spec: at most MaxMsgs messages; the page is in the foreground or not,
\* online or not; every request may fail.
Next ==
  \/ \E online \in BOOLEAN, visible \in BOOLEAN :
       nreq < MaxMsgs /\ HandleSendMessage(online, visible)
  \/ \E r \in Reqs : StreamRejected(r)
  \/ \E r \in Reqs : StreamAccepted(r)
  \/ \E r \in Reqs : Unread(r) # <<>> /\ StreamChunk(r, NextEvent(r))
  \/ \E r \in Reqs : StreamReadFailure(r)
  \/ \E r \in Reqs : StreamClosed(r)
  \/ \E r \in Reqs, convsOk \in BOOLEAN, ok \in BOOLEAN : OnCompleteGetConversation(r, convsOk, ok)
  \/ \E r \in Reqs, ok \in BOOLEAN : OnCompleteLoadUsage(r, ok)
  \/ \E r \in Reqs : SubmitAccepted(r)
  \/ \E r \in Reqs, created \in BOOLEAN : SubmitFailed(r, created)
  \/ \E r \in Reqs, convsOk \in BOOLEAN, ok \in BOOLEAN : SubmitGetConversation(r, convsOk, ok)
  \/ Polling(TRUE)
  \/ \E id \in 1..MaxReq, ok \in BOOLEAN : HandleSelectConversation(id, ok)
  \/ HandleNewChat
  \/ \E convsOk \in BOOLEAN, usageOk \in BOOLEAN : Reload(TRUE, convsOk, usageOk)
  \/ Backend

Spec == Init /\ [][Next]_vars

\* SpecResume: up to MaxReq messages, each sent while the page is hidden
\* (background mode), and no request fails.
NextResume ==
  \/ \E online \in BOOLEAN : HandleSendMessage(online, FALSE)
  \/ \E r \in Reqs : SubmitAccepted(r)
  \/ \E r \in Reqs : SubmitGetConversation(r, TRUE, TRUE)
  \/ Polling(FALSE)
  \/ \E id \in 1..MaxReq : HandleSelectConversation(id, TRUE)
  \/ HandleNewChat
  \/ Reload(TRUE, TRUE, TRUE)
  \/ \E r \in Reqs : SrvComplete(r)
  \/ \E r \in Reqs : SrvFail(r)

SpecResume == Init /\ [][NextResume]_vars

\* SpecSSE: one message sent in streaming mode, no request fails and the user
\* waits; the response body arrives in chunks of any size up to MaxChunk,
\* wherever the chunk boundaries fall.
NextSSE ==
  \/ nreq < MaxMsgs /\ HandleSendMessage(TRUE, TRUE)
  \/ \E r \in Reqs : StreamAccepted(r)
  \/ \E r \in Reqs, n \in 1..MaxChunk : StreamChunk(r, n)
  \/ \E r \in Reqs : exchanges[r].status \in {"complete", "error"} /\ StreamClosed(r)
  \/ \E r \in Reqs : OnCompleteGetConversation(r, TRUE, TRUE)
  \/ \E r \in Reqs : OnCompleteLoadUsage(r, TRUE)
  \/ Backend

SpecSSE == Init /\ [][NextSSE]_vars

\* SpecCmd: the user types commands, picks models, sends up to MaxMsgs
\* messages (whose requests the backend refuses), starts new chats and
\* reloads the page, with or without the catalog.
CmdInputs ==
  { <<"/temp", " ", "0.7">>, <<"/TEMP", "  ", "2">>, <<"/temp", " ", "2.5">>,
    <<"/temp">>, <<"/temp", " ", "abc">>,
    <<"/model", " ", "O3">>, <<"/model", " ", "gpt">>,
    <<"/model", " ", "claude", " ", "3.5", " ", "sonnet">>, <<"/model", " ", "nomodel">>,
    <<"/reasoning", " ", "HIGH">>, <<"/reasoning", " ", "low">>,
    <<"/help">>, <<"/foo">>,
    <<"/temp", " ", "3.0">>, <<"/model">>, <<"/reasoning">>,
    <<"/reasoning", " ", "ultra">>, <<"/FOO", " ", "0.7">>, <<"/">>, <<"/HELP">> }

\* The confirmations of commands (system messages) on display.
Notes == Cardinality({i \in DOMAIN store.messages : store.messages[i].role = "system"})

NextCmd ==
  \/ \E input \in CmdInputs : Notes < MaxNotes /\ HandleCommand(input)
  \/ \E i \in 1..Len(ServerCatalog) : HandleModelChange(i)
  \/ \E online \in BOOLEAN, visible \in BOOLEAN :
       nreq < MaxMsgs /\ HandleSendMessage(online, visible)
  \/ \E r \in Reqs : StreamRejected(r)
  \/ \E r \in Reqs : SubmitFailed(r, FALSE)
  \/ HandleNewChat
  \/ \E catalogOk \in BOOLEAN : Reload(catalogOk, TRUE, TRUE)

SpecCmd == Init /\ [][NextCmd]_vars

\* SpecModel: the backend serves a catalog of five models in one of several
\* orders (two models share the display name "o3", one model is named by a
\* word that is part of another one's id); the user types up to
\* MaxNotes + 1 commands in a row, uses the picker and starts new chats.
DatedO3 ==
  [id |-> "o3-2025-04-16", name |-> "o3", lname |-> <<"o3">>, available |-> TRUE,
   reasoning_levels |-> <<"medium", "high">>, supports_temperature |-> FALSE]

Sonnet4 ==
  [id |-> "claude-sonnet-4", name |-> "Sonnet", lname |-> <<"sonnet">>, available |-> TRUE,
   reasoning_levels |-> <<"high", "low">>, supports_temperature |-> TRUE]

Catalogs ==
  { ServerCatalog \o <<DatedO3, Sonnet4>>,
    <<DatedO3, Sonnet4>> \o ServerCatalog,
    <<Sonnet4, ServerCatalog[1], DatedO3, ServerCatalog[3], ServerCatalog[2]>>,
    <<ServerCatalog[3], DatedO3, ServerCatalog[2], ServerCatalog[1], Sonnet4>> }

ModelInputs ==
  { <<"/model", " ", "O3">>, <<"/model", " ", "gpt">>, <<"/model", " ", "Sonnet">>,
    <<"/model", " ", "claude", " ", "3.5", " ", "sonnet">>,
    <<"/model", " ", "claude-3-5-sonnet-20240620">>,
    <<"/model", " ", "nomodel">>, <<"/model">>,
    <<"/reasoning", " ", "high">>, <<"/reasoning", " ", "low">>,
    <<"/temp", " ", "0.7">> }

InitModel ==
  /\ req = [r \in Reqs |-> NoReq]
  /\ nreq = 0
  /\ exchanges = [r \in Reqs |-> NoExchange]
  /\ ledger = {}
  /\ prompts = [c \in Reqs |-> <<>>]
  /\ sysCall = NoCall
  /\ \E ms \in Catalogs :
       LET page == LoadPage(EmptyStorage, ms, ServerDefaults, TRUE, TRUE) IN
         /\ store = page.w.store
         /\ localStorage = page.w.localStorage
         /\ models = page.models
         /\ catalogDefaults = page.catalogDefaults
         /\ polls = page.polls
         /\ pollTimer = page.pollTimer

NextModel ==
  \/ \E input \in ModelInputs : Notes <= MaxNotes /\ HandleCommand(input)
  \/ \E i \in 1..Len(models) : HandleModelChange(i)
  \/ HandleNewChat

SpecModel == InitModel /\ [][NextModel]_vars

\* SpecReason: models and reasoning levels are changed by command and by
\* the picker between page loads (with or without the catalog), new chats
\* and the selection of a conversation that a lost response left behind.
ReasonInputs ==
  { <<"/model", " ", "O3">>, <<"/model", " ", "gpt">>,
    <<"/model", " ", "claude", " ", "3.5", " ", "sonnet">>,
    <<"/reasoning", " ", "HIGH">>, <<"/reasoning", " ", "low">>,
    <<"/reasoning", " ", "ultra">> }

NextReason ==
  \/ \E input \in ReasonInputs : Notes < MaxNotes /\ HandleCommand(input)
  \/ \E i \in 1..Len(ServerCatalog) : HandleModelChange(i)
  \/ \E online \in BOOLEAN, visible \in BOOLEAN :
       nreq < MaxMsgs /\ HandleSendMessage(online, visible)
  \/ \E r \in Reqs : StreamRejected(r)
  \/ \E r \in Reqs, created \in BOOLEAN : SubmitFailed(r, created)
  \/ \E id \in 1..MaxReq : HandleSelectConversation(id, TRUE)
  \/ \E r \in Reqs : SrvComplete(r)
  \/ HandleNewChat
  \/ \E catalogOk \in BOOLEAN : Reload(catalogOk, TRUE, TRUE)

SpecReason == Init /\ [][NextReason]_vars

\* SpecSys: the user types /system, or a line that is no command, before or
\* after sending a message, in either mode; requests fail or succeed; the
\* user may pick a model and start a new chat.
SysInputs ==
  { <<"/system", " ", "be", " ", "brief">>, <<"/system">>,
    <<"/foo">>, <<"/FOO", " ", "0.7">>, <<"/">>, <<"/System", " ", "be", " ", "brief">>,
    <<"/system", " ", "be", "  ", "brief">>, <<"/system", " ", "be", "\n", "brief">>,
    <<"/help">>, <<"/HELP">> }

\* The system texts queued in the store, on their way or in a prompt.
RECURSIVE PromptTexts(_)
PromptTexts(c) == IF c = 0 THEN 0 ELSE Len(prompts[c]) + PromptTexts(c - 1)

SysTexts ==
  Len(store.pendingSystem) + (IF sysCall = NoCall THEN 0 ELSE 1) + PromptTexts(MaxReq)

NextSys ==
  \/ \E input \in SysInputs :
       /\ parseCommand(input).id = "/system" => SysTexts < MaxSys
       /\ parseCommand(input).id = "/help" => Notes < MaxNotes
       /\ HandleCommand(input)
  \/ \E i \in 1..Len(models) : HandleModelChange(i)
  \/ \E delivered \in BOOLEAN, ok \in BOOLEAN : AppendSystemTextSettled(delivered, ok)
  \/ \E online \in BOOLEAN, visible \in BOOLEAN :
       nreq < MaxMsgs /\ HandleSendMessage(online, visible)
  \/ \E r \in Reqs : StreamRejected(r)
  \/ \E r \in Reqs : StreamAccepted(r)
  \/ \E r \in Reqs : Unread(r) # <<>> /\ StreamChunk(r, NextEvent(r))
  \/ \E r \in Reqs : StreamReadFailure(r)
  \/ \E r \in Reqs : StreamClosed(r)
  \/ \E r \in Reqs : OnCompleteGetConversation(r, TRUE, TRUE)
  \/ \E r \in Reqs : OnCompleteLoadUsage(r, TRUE)
  \/ \E r \in Reqs : SubmitAccepted(r)
  \/ \E r \in Reqs, created \in BOOLEAN : SubmitFailed(r, created)
  \/ \E r \in Reqs : SubmitGetConversation(r, TRUE, TRUE)
  \/ Polling(FALSE)
  \/ HandleNewChat
  \/ Backend

SpecSys == Init /\ [][NextSys]_vars

\* SpecLoad: the page is loaded again and again, and each of the reads of a
\* page load (catalog, conversation list, usage) fails or succeeds; between
\* the loads the user changes model, temperature and reasoning, sends a
\* message in background mode and starts new chats.
LoadInputs ==
  { <<"/model", " ", "O3">>, <<"/model", " ", "claude", " ", "3.5", " ", "sonnet">>,
    <<"/temp", " ", "0.7">>, <<"/reasoning", " ", "HIGH">> }

NextLoad ==
  \/ \E catalogOk \in BOOLEAN, convsOk \in BOOLEAN, usageOk \in BOOLEAN :
       Reload(catalogOk, convsOk, usageOk)
  \/ \E input \in LoadInputs : Notes < MaxNotes /\ HandleCommand(input)
  \/ \E i \in 1..Len(models) : HandleModelChange(i)
  \/ \E online \in BOOLEAN : nreq < MaxMsgs /\ HandleSendMessage(online, FALSE)
  \/ \E r \in Reqs : SubmitAccepted(r)
  \/ \E r \in Reqs : SrvComplete(r)
  \/ HandleNewChat

SpecLoad == Init /\ [][NextLoad]_vars

\* SpecConv: the user sends a message (either mode), selects, copies and
\* deletes conversations, starts new chats and reloads the page; the
\* response to a deletion may be lost; the list of conversations may fail
\* to load with the page; a read of a deleted conversation fails; the
\* provider does not fail.
NextConv ==
  \/ \E online \in BOOLEAN, visible \in BOOLEAN :
       nreq < MaxMsgs /\ HandleSendMessage(online, visible)
  \/ \E r \in Reqs : StreamAccepted(r)
  \/ \E r \in Reqs : Unread(r) # <<>> /\ StreamChunk(r, NextEvent(r))
  \/ \E r \in Reqs : StreamClosed(r)
  \/ \E r \in Reqs : OnCompleteGetConversation(r, TRUE, Exists(exchanges[r].conv))
  \/ \E r \in Reqs : OnCompleteLoadUsage(r, TRUE)
  \/ \E r \in Reqs : SubmitAccepted(r)
  \/ \E r \in Reqs : SubmitGetConversation(r, TRUE, Exists(exchanges[r].conv))
  \/ \E p \in 1..MaxPolls : PollFire(p)
  \/ \E p \in 1..MaxPolls : PollRead(p, Exists(polls[p].conv))
  \/ \E p \in 1..MaxPolls : PollLoadUsage(p, TRUE)
  \/ \E id \in 1..MaxReq : HandleSelectConversation(id, Exists(id))
  \/ \E id \in 1..MaxReq, ok \in BOOLEAN : HandleDeleteConversation(id, TRUE, ok)
  \/ \E id \in 1..MaxReq : HandleCloneConversation(id, TRUE, TRUE)
  \/ HandleNewChat
  \/ \E convsOk \in BOOLEAN : Reload(TRUE, convsOk, TRUE)
  \/ \E r \in Reqs : SrvStartStreaming(r)
  \/ \E r \in Reqs : SrvComplete(r)

SpecConv == Init /\ [][NextConv]_vars

\* SpecLive: one submission (a message in either mode or an image) and
\* /system commands, left to run with nobody touching the page: every
\* request is answered or fails, every stream delivers its events, is cut
\* or ends, every timer fires, the provider finishes, and a poll's read that
\* fails time and again succeeds in the end.
LiveInputs == { <<"/image", " ", "cat">>, <<"/system", " ", "be", " ", "brief">> }

StreamSteps(r) ==
  \/ StreamRejected(r)
  \/ StreamAccepted(r)
  \/ /\ req[r].pc = "reading" /\ Unread(r) # <<>>
     /\ \E n \in {NextEvent(r)} : StreamChunk(r, n)
  \/ StreamReadFailure(r)
  \/ StreamClosed(r)
  \/ \E ok \in BOOLEAN : OnCompleteGetConversation(r, TRUE, ok)
  \/ OnCompleteLoadUsage(r, TRUE)

SubmitSteps(r) ==
  \/ SubmitAccepted(r)
  \/ SubmitFailed(r, FALSE)
  \/ \E ok \in BOOLEAN : SubmitGetConversation(r, TRUE, ok)

ImageSteps(r) ==
  \/ ImageGenerated(r)
  \/ ImageFailed(r)
  \/ \E ok \in BOOLEAN : ImageGetConversation(r, TRUE, ok)

SystemSteps == \E delivered \in BOOLEAN, ok \in BOOLEAN : AppendSystemTextSettled(delivered, ok)

PollSteps(p) ==
  \/ PollFire(p)
  \/ \E ok \in BOOLEAN : PollRead(p, ok)
  \/ PollLoadUsage(p, TRUE)

NextLive ==
  \/ \E online \in BOOLEAN, visible \in BOOLEAN :
       nreq < MaxMsgs /\ HandleSendMessage(online, visible)
  \/ \E input \in LiveInputs :
       /\ parseCommand(input).id = "/image" => nreq < MaxMsgs
       /\ parseCommand(input).id = "/system" => SysTexts < MaxSys
       /\ HandleCommand(input)
  \/ \E r \in Reqs : StreamSteps(r)
  \/ \E r \in Reqs : SubmitSteps(r)
  \/ \E r \in Reqs : ImageSteps(r)
  \/ SystemSteps
  \/ \E p \in 1..MaxPolls : PollSteps(p)
  \/ Backend

Fairness ==
  /\ \A r \in Reqs : WF_vars(StreamSteps(r))
  /\ \A r \in Reqs : WF_vars(SubmitSteps(r))
  /\ \A r \in Reqs : WF_vars(ImageSteps(r))
  /\ WF_vars(SystemSteps)
  /\ \A p \in 1..MaxPolls : WF_vars(PollSteps(p))
  /\ \A p \in 1..MaxPolls : SF_vars(PollRead(p, TRUE))
  /\ WF_vars(Backend)

SpecLive == Init /\ [][NextLive]_vars /\ Fairness

\* SpecImage: the user types /image lines, with and without prompt, model=
\* and size=, and sends messages, up to MaxReq requests in all; image
\* requests succeed or fail, chat requests fail; the user selects
\* conversations and starts new chats meanwhile.
ImageInputs ==
  { <<"/image">>, <<"/image", " ", "cat">>,
    <<"/image", " ", "cat", " ", "model=dall-e-2">>,
    <<"/image", " ", "size=512x512", " ", "cat">>,
    <<"/image", " ", "model=gpt-image-1", " ", "size=512x512">>,
    <<"/image", " ", "model=">>,
    <<"/image", " ", "size=", "  ", "cat", " ", "model=">>,
    <<"/image", " ", "prompt", " ", "cat">>,
    <<"/image", " ", "prompt:", " ", "size=512x512">>,
    <<"/image", " ", "prompt:cat", " ", "cat">>,
    <<"/IMAGE", " ", "model=dall-e-2", "\n", "model=gpt-image-1">> }

NextImage ==
  \/ \E input \in ImageInputs : HandleCommand(input)
  \/ \E r \in Reqs : ImageGenerated(r)
  \/ \E r \in Reqs : ImageFailed(r)
  \/ \E r \in Reqs, convsOk \in BOOLEAN, ok \in BOOLEAN : ImageGetConversation(r, convsOk, ok)
  \/ \E online \in BOOLEAN, visible \in BOOLEAN : HandleSendMessage(online, visible)
  \/ \E r \in Reqs : StreamRejected(r)
  \/ \E r \in Reqs, created \in BOOLEAN : SubmitFailed(r, created)
  \/ \E id \in 1..MaxReq, ok \in BOOLEAN : HandleSelectConversation(id, ok)
  \/ HandleNewChat

SpecImage == Init /\ [][NextImage]_vars

----------------------------------------------------------------------------
\* The exchanges of conversation c that the backend has not finished.
Outstanding(c) == {e \in Reqs : exchanges[e].conv = c /\ NonTerminal(exchanges[e].status)}

\* The step in which handleSendMessage puts message r on the wire.
Sends(r) == req[r].mode = "none" /\ req'[r].mode # "none"

\* C1: the client sends no chat request for a conversation while one of that
\* conversation's exchanges is pending or streaming, also after a reload or a
\* switch of conversation that resumed polling.
C1_NoSendWhileOutstanding ==
  [][\A r \in Reqs :
       Sends(r) /\ req'[r].body.conversation_id # NoConv
         => Outstanding(req'[r].body.conversation_id) = {}]_vars

\* What the message list shows of exchange r: the assistant messages of r.
Shown(st, r) ==
  {st.messages[i] : i \in {j \in DOMAIN st.messages :
                              st.messages[j].role = "assistant" /\ st.messages[j].ex = r}}

\* status a may be followed by status b
Forward(a, b) ==
  \/ a = b
  \/ a = "pending" /\ b \in {"streaming", "complete", "error"}
  \/ a = "streaming" /\ b \in {"complete", "error"}

\* C2: the status of an exchange only moves forward, and an exchange shown
\* as complete or error never changes again and gets no further content,
\* whatever stream event, read failure or poll result arrives later.
C2_StatusMonotonic ==
  [][\A r \in Reqs : \A m \in Shown(store, r) : \A n \in Shown(store', r) :
       /\ Forward(m.status, n.status)
       /\ Terminal(m.status) => n = m]_vars

\* C3: a poll step only reads: it sends no chat request and changes no
\* exchange; the loop reschedules itself when the read failed or showed a
\* pending exchange and stops (going on to the usage read) at the first
\* successful read that shows none; a read changes nothing, so two reads of
\* a conversation without outstanding exchange return the same messages.
C3_PollOnlyReads ==
  [][
      /\ \A p \in 1..MaxPolls, ok \in BOOLEAN :
          PollRead(p, ok) =>
            LET read == getConversation(polls[p].conv)
                pending == \E i \in DOMAIN read : read[i].status = "pending"
            IN /\ UNCHANGED <<req, nreq, exchanges, ledger, prompts>>
               /\ polls'[p].pc = "timer" <=> (~ok \/ pending)
               /\ polls'[p].pc = "loadUsage" <=> (ok /\ ~pending)
               /\ pollTimer' = p <=> (~ok \/ pending \/ pollTimer = p)
      /\ \A p \in 1..MaxPolls, ok \in BOOLEAN :
          (PollFire(p) \/ PollLoadUsage(p, ok)) => UNCHANGED <<req, nreq, exchanges, ledger, prompts>>
      /\ \A c \in ServerConvs :
          (Outstanding(c) = {} /\ Outstanding(c)' = {}) => getConversation(c)' = getConversation(c)
     ]_vars

\* A poll loop has read its conversation, found no pending exchange in it
\* and stopped.
C3_Witness ==
  \E p \in 1..MaxPolls :
    /\ polls[p].pc = "loadUsage"
    /\ polls[p].conv # NoConv
    /\ Outstanding(polls[p].conv) = {}

\* handleSendMessage is no longer at work on exchange r: the page that sent
\* it was closed, or the handler has returned.
Detached(r) == req[r].pc \in {"killed", "failed", "closed", "polling"}

\* Some poll loop of the current page is polling conversation c.
Polled(c) == \E p \in 1..MaxPolls : polls[p].conv = c /\ polls[p].pc \in {"timer", "fetch"}

\* C4: when the page was reopened or a conversation selected and the
\* conversation on display has an exchange that is not terminal (pending, or
\* streaming after the client disconnected), the client is polling that
\* conversation, so that the final content is shown once it is terminal.
C4_ResumeByPolling ==
  \A r \in Reqs :
    (/\ NonTerminal(exchanges[r].status)
     /\ store.currentConversation = exchanges[r].conv
     /\ \E m \in Shown(store, r) : m.status = exchanges[r].status
     /\ Detached(r))
      => Polled(exchanges[r].conv)

\* C5: every message handed to handleSendMessage has put exactly one chat
\* request on the wire, a stream request if and only if the page was online
\* and visible when it was sent and a submit request otherwise; the reply to
\* a message sent in background mode is never shown as streaming.
C5_OneRequestByMode ==
  \A r \in Reqs :
    /\ req[r].nStream + req[r].nSubmit = (IF r <= nreq THEN 1 ELSE 0)
    /\ r <= nreq =>
         /\ req[r].nStream = 1 <=> (req[r].online /\ req[r].visible)
         /\ ~(req[r].online /\ req[r].visible) =>
              \A m \in Shown(store, r) : m.status # "streaming"

\* A message sent while the page was online but hidden went out as one
\* submit request, and its reply is on display.
C5_Witness ==
  \E r \in Reqs :
    /\ req[r].online /\ ~req[r].visible
    /\ req[r].nSubmit = 1 /\ req[r].nStream = 0
    /\ \E m \in Shown(store, r) : m.status = "pending"

\* C9: a chat request is never sent again: once the request of a message is
\* on the wire, no later step (its failure included) changes the number of
\* stream or submit requests sent for that message, their mode or body.
C9_NoAutomaticRetry ==
  [][\A r \in Reqs :
       req[r].mode # "none" =>
         /\ req'[r].nStream = req[r].nStream
         /\ req'[r].nSubmit = req[r].nSubmit
         /\ req'[r].mode = req[r].mode
         /\ req'[r].body = req[r].body]_vars

\* A stream request failed after the backend had created its exchange, and
\* one request was sent for the message.
C9_Witness ==
  \E r \in Reqs :
    /\ req[r].mode = "stream" /\ req[r].pc = "failed"
    /\ exchanges[r].status # "none"
    /\ req[r].nStream + req[r].nSubmit = 1

\* C7: when the stream of exchange r fails after tokens t1..tk were received,
\* the exchange is shown with status error and content t1..tk followed by
\* the error annotation, and the failure records and refreshes no usage.
C7_StreamFailureKeepsTokens ==
  [][\A r \in Reqs :
       (/\ req[r].pc = "reading" /\ req'[r].pc = "failed"
        /\ Len(req[r].streamed) >= 1)
         => /\ Shown(store', r) =
                 {Message("assistant", r, "error", Content(req[r].streamed, "error"))}
            /\ store'.usage = store.usage
            /\ ledger' = ledger]_vars

\* C8: an exchange is complete if and only if the usage totals include it,
\* in every state the client can observe: each reply on display is shown as
\* complete exactly when the usage the client shows counts it.
C8_CompleteIffUsage ==
  \A r \in Reqs : \A m \in Shown(store, r) :
    m.status = "complete" <=> r \in store.usage

IsPrefix(a, b) == Len(a) <= Len(b) /\ a = SubSeq(b, 1, Len(a))

\* C6: in streaming mode the tokens handed to onToken, and so the content
\* accumulated for the exchange, are the provider's tokens in the order of
\* emission, none dropped, duplicated or reordered, however the event stream
\* is cut into chunks: what was streamed is always a prefix of what the
\* provider emitted, and all of it once the client has read all of the body.
C6_TokensInOrder ==
  \A r \in Reqs :
    req[r].mode = "stream" =>
      /\ IsPrefix(req[r].streamed, exchanges[r].content)
      /\ (exchanges[r].status # "none" /\ req[r].rd = Len(Wire(exchanges[r])))
           => req[r].streamed = exchanges[r].content

\* The first token was delivered and the chunk read last ended inside the
\* event of the second token, between the two bytes of its character: the
\* partial line is in the buffer and the lead byte is held by the decoder.
C6_Witness ==
  \E r \in Reqs :
    /\ req[r].pc = "reading"
    /\ req[r].streamed = <<1>>
    /\ req[r].buffer # <<>>
    /\ req[r].dec = <<Lead>>

\* The catalog says model id takes no temperature.
NoTemperature(id) ==
  \E i \in 1..Len(ServerCatalog) :
    ServerCatalog[i].id = id /\ ~ServerCatalog[i].supports_temperature

\* C10: while a catalog model without temperature support is the active
\* model, every /temp command is rejected and leaves the temperature as it
\* was, and every chat request sent, stream or background, has no
\* temperature field.
C10_NoTemperatureForModel ==
  [][/\ \A input \in {x \in CmdInputs : parseCommand(x).id = "/temp"} :
          (NoTemperature(store.selectedModel) /\ HandleCommand(input))
            => /\ store'.error = "Temperature not supported for this model."
               /\ store'.temperature = store.temperature
               /\ localStorage'.temperature = localStorage.temperature
               /\ store'.messages = store.messages
     /\ \A r \in Reqs :
          (Sends(r) /\ NoTemperature(req'[r].body.model))
            => ~req'[r].body.has_temperature /\ req'[r].body.temperature = Null
    ]_vars

\* With o3 active a chat request went out without temperature, and the
\* /temp command typed after it was rejected.
C10_Witness ==
  /\ store.selectedModel = "o3"
  /\ store.error = "Temperature not supported for this model."
  /\ \E r \in Reqs :
       /\ req[r].body.model = "o3"
       /\ req[r].nStream + req[r].nSubmit = 1
       /\ ~req[r].body.has_temperature

\* The reasoning levels the catalog in use declares for model id; none when
\* the model is not in the catalog.
DeclaredLevels(id) ==
  IF \E i \in 1..Len(models) : models[i].id = id
    THEN models[CHOOSE i \in 1..Len(models) : models[i].id = id].reasoning_levels
    ELSE <<>>

Declared(id, level) ==
  \E k \in 1..Len(DeclaredLevels(id)) : DeclaredLevels(id)[k] = level

C12_NoReasoningForModel ==
  [][\A r \in Reqs :
       (Sends(r) /\ DeclaredLevels(req'[r].body.model) = <<>>)
         => ~req'[r].body.has_reasoning /\ req'[r].body.reasoning = ""]_vars

\* A request went out for the model without levels while the store held
\* the level "high", chosen for an earlier model.
C12_Witness ==
  \E r \in Reqs :
    /\ req[r].mode # "none"
    /\ req[r].body.model = "claude-3-5-sonnet-20240620"
    /\ ~req[r].body.has_reasoning
    /\ store.reasoning = "high"
    /\ store.selectedModel = "claude-3-5-sonnet-20240620"

\* C13: system text queued by /system while no conversation is on display
\* goes out with the next chat request, and the queue is emptied only in a
\* step after which the backend has accepted a request that carried the
\* text (and so holds it in the prompt of the conversation): a request that
\* fails without creating anything, stream or background, leaves the queue
\* as it was.
C13_QueuedSystemTextKept ==
  [][/\ \A r \in Reqs : Sends(r) => req'[r].body.system_text = store.pendingSystem
     /\ (store.pendingSystem # <<>> /\ store'.pendingSystem = <<>>)
          => \E r \in Reqs : /\ req[r].body.system_text = store.pendingSystem
                             /\ exchanges'[r].status # "none"]_vars

\* The /temp lines of CmdInputs whose argument is not the text of a finite
\* number: no argument at all, and a word that is no number.
TempNoNumber == { <<"/temp">>, <<"/temp", " ", "abc">> }

\* C14: a /temp command whose argument is missing or is not a number is
\* rejected (an error is shown, no confirmation is added) and leaves the
\* temperature as it was, whatever the active model.
C14_TempNeedsNumber ==
  [][\A input \in TempNoNumber :
       HandleCommand(input)
         => /\ store'.error # ""
            /\ store'.temperature = store.temperature
            /\ localStorage'.temperature = localStorage.temperature
            /\ store'.messages = store.messages]_vars

\* The /reasoning lines of CmdInputs and the level each one asks for.
ReasoningAsked ==
  { [input |-> <<"/reasoning", " ", "HIGH">>, level |-> "HIGH"],
    [input |-> <<"/reasoning", " ", "low">>, level |-> "low"],
    [input |-> <<"/reasoning", " ", "ultra">>, level |-> "ultra"],
    [input |-> <<"/reasoning">>, level |-> ""] }

\* C15: /reasoning <arg> is applied (the level is stored, no error) exactly
\* when arg is, letter for letter, one of the levels the active model
\* declares; otherwise it is rejected and the reasoning stays as it was.
C15_ReasoningCaseSensitive ==
  [][\A a \in ReasoningAsked :
       HandleCommand(a.input)
         => IF Declared(store.selectedModel, a.level)
              THEN store'.reasoning = a.level /\ store'.error = ""
              ELSE /\ store'.reasoning = store.reasoning
                   /\ localStorage'.reasoning = localStorage.reasoning
                   /\ store'.error # ""
                   /\ store'.messages = store.messages]_vars

\* The /temp lines of CmdInputs whose number lies outside [0, 2].
TempOutside == { <<"/temp", " ", "2.5">>, <<"/temp", " ", "3.0">> }

\* C16: /temp with a number outside [0, 2] is rejected whatever the active
\* model: an error is shown, temperature, model and reasoning stay as they
\* were, in the store and in localStorage, and no request is sent.
C16_TempOutOfRange ==
  [][\A input \in TempOutside :
       HandleCommand(input)
         => /\ store'.error # ""
            /\ store'.temperature = store.temperature
            /\ store'.selectedModel = store.selectedModel
            /\ store'.reasoning = store.reasoning
            /\ localStorage' = localStorage
            /\ store'.messages = store.messages
            /\ req' = req /\ nreq' = nreq]_vars

\* The range error is on display for a model that takes a temperature,
\* picked in place of the default one, and the temperature is the one
\* that was there before the command.
C16_Witness ==
  /\ store.error = "Temperature must be between 0 and 2."
  /\ store.selectedModel = "claude-3-5-sonnet-20240620"
  /\ store.temperature = 20
  /\ nreq = 0

\* The /reasoning lines of ModelInputs.
ReasoningLines == { <<"/reasoning", " ", "high">>, <<"/reasoning", " ", "low">> }

\* C17: while the active model declares no reasoning levels, also right
\* after a /model command switched to it, every /reasoning command is
\* rejected with the reason "reasoning levels not supported" and the stored
\* reasoning, in the store and in localStorage, stays as it was.
C17_NoLevelsRejectsReasoning ==
  [][\A input \in ReasoningLines :
       (DeclaredLevels(store.selectedModel) = <<>> /\ HandleCommand(input))
         => /\ store'.error = "Reasoning levels not supported for this model."
            /\ store'.reasoning = store.reasoning
            /\ localStorage'.reasoning = localStorage.reasoning
            /\ store'.messages = store.messages]_vars

\* /model claude-3-5-sonnet-20240620 was applied (its confirmation is the
\* only message), then /reasoning was typed: it was rejected and the level
\* is the one from before.
C17_Witness ==
  /\ store.selectedModel = "claude-3-5-sonnet-20240620"
  /\ Len(store.messages) = 1
  /\ store.messages[1].content.note = "Model set to"
  /\ store.error = "Reasoning levels not supported for this model."
  /\ store.reasoning = "low"

\* The /model lines of ModelInputs with, for each query, the catalog ids
\* that equal it, the display names that equal it and the ids that contain
\* it when letter case is ignored.
ModelAsked ==
  { [input |-> <<"/model", " ", "O3">>,
     idIs |-> {"o3"}, nameIs |-> {"o3"}, idHas |-> {"o3", "o3-2025-04-16"}],
    [input |-> <<"/model", " ", "gpt">>,
     idIs |-> {}, nameIs |-> {}, idHas |-> {"gpt-5.1"}],
    [input |-> <<"/model", " ", "Sonnet">>,
     idIs |-> {}, nameIs |-> {"Sonnet"},
     idHas |-> {"claude-3-5-sonnet-20240620", "claude-sonnet-4"}],
    [input |-> <<"/model", " ", "claude", " ", "3.5", " ", "sonnet">>,
     idIs |-> {}, nameIs |-> {"Claude 3.5 Sonnet"}, idHas |-> {}],
    [input |-> <<"/model", " ", "claude-3-5-sonnet-20240620">>,
     idIs |-> {"claude-3-5-sonnet-20240620"}, nameIs |-> {},
     idHas |-> {"claude-3-5-sonnet-20240620"}],
    [input |-> <<"/model", " ", "nomodel">>, idIs |-> {}, nameIs |-> {}, idHas |-> {}],
    [input |-> <<"/model">>, idIs |-> {}, nameIs |-> {}, idHas |-> {}] }

\* The least position of the catalog that is in set P, 0 when there is none.
First(P) == IF P = {} THEN 0 ELSE CHOOSE i \in P : \A j \in P : i <= j

\* The position /model is to select for query a: by id, else by display
\* name, else by part of the id; 0 when nothing matches.
Selected(a) ==
  LET byId == First({i \in 1..Len(models) : models[i].id \in a.idIs})
      byName == First({i \in 1..Len(models) : models[i].name \in a.nameIs})
      byPart == First({i \in 1..Len(models) : models[i].id \in a.idHas})
  IN IF byId # 0 THEN byId ELSE IF byName # 0 THEN byName ELSE byPart

NotFound == "Model not found. Try /model and autocomplete."

\* C18: /model <query> selects the first model of the catalog whose id is
\* the query, else the first whose display name is the query, else the
\* first whose id contains it, letter case ignored; when there is none, or
\* no query, it is rejected and model, temperature and reasoning stay as
\* they were.
C18_ModelMatchOrder ==
  [][\A a \in ModelAsked :
       HandleCommand(a.input)
         => IF Selected(a) # 0
              THEN /\ store'.selectedModel = models[Selected(a)].id
                   /\ store'.error # NotFound
              ELSE /\ store'.error = NotFound
                   /\ store'.selectedModel = store.selectedModel
                   /\ store'.temperature = store.temperature
                   /\ store'.reasoning = store.reasoning
                   /\ localStorage' = localStorage
                   /\ store'.messages = store.messages]_vars

\* The catalog lists the dated o3, whose display name is "o3" and whose id
\* contains "o3", before the model whose id is "o3"; /model O3 selected
\* the latter.
C18_Witness ==
  /\ models[1].id = "o3-2025-04-16"
  /\ models[4].id = "o3"
  /\ store.selectedModel = "o3"
  /\ \E i \in DOMAIN store.messages :
       store.messages[i].content = Content(<<4>>, "Model set to")

\* The catalog entry of model id.
Entry(id) == models[CHOOSE i \in 1..Len(models) : models[i].id = id]

\* C19: after an applied /model, with t the model now selected: the
\* reasoning is t's first level when t declares levels and the level held
\* before is not one of them, and the level held before otherwise; the
\* temperature is 0 when t takes no temperature, and the one held before
\* otherwise.
C19_ModelChangeResets ==
  [][\A a \in ModelAsked :
       (HandleCommand(a.input) /\ store'.error # NotFound)
         => LET t == Entry(store'.selectedModel) IN
            /\ store'.reasoning =
                 IF t.reasoning_levels # <<>>
                    /\ \A k \in 1..Len(t.reasoning_levels) :
                          t.reasoning_levels[k] # store.reasoning
                   THEN t.reasoning_levels[1] ELSE store.reasoning
            /\ store'.temperature =
                 IF t.supports_temperature THEN store.temperature ELSE 0
            /\ localStorage'.selectedModel = store'.selectedModel]_vars

\* /model O3 and then /model Sonnet were applied, starting from "low" and
\* 0.2: o3 made the level "medium" and the temperature 0; the second model
\* does not declare "medium", so the level became its first, "high", and it
\* takes a temperature, so the 0 was kept.
C19_Witness ==
  /\ store.selectedModel = "claude-sonnet-4"
  /\ store.reasoning = "high"
  /\ store.temperature = 0
  /\ Len(store.messages) = 2
  /\ store.messages[1].content.note = "Model set to"
  /\ store.messages[2].content.note = "Model set to"

\* The lines of SysInputs whose first word is no command word.
UnknownLines == { <<"/foo">>, <<"/FOO", " ", "0.7">>, <<"/">> }

UnknownCommand == "Unknown command. Type /help."

\* C20: a line that starts with '/' and whose first word is no command
\* word is rejected with the reason "unknown command": the error is the
\* only thing that changes, so nothing is sent (no stream or submit
\* request, no message added) and model, temperature, reasoning and queued
\* system text stay as they were; a command word typed in another letter
\* case is a command and not unknown.
C20_UnknownCommandRejected ==
  [][/\ \A input \in UnknownLines :
          HandleCommand(input)
            => /\ store' = [store EXCEPT !.error = UnknownCommand]
               /\ UNCHANGED <<localStorage, sysCall, req, nreq, exchanges, ledger, prompts>>
     /\ HandleCommand(<<"/System", " ", "be", " ", "brief">>)
          => store'.error # UnknownCommand]_vars

\* With o3 picked and a system text queued, a line that is no command was
\* typed: the error is on display, the text is still queued, nothing was
\* sent.
C20_Witness ==
  /\ store.error = UnknownCommand
  /\ store.selectedModel = "o3"
  /\ store.pendingSystem # <<>>
  /\ nreq = 0
  /\ \A r \in Reqs : req[r] = NoReq

\* The /system lines of SysInputs that carry a text.
SystemLines ==
  {input \in SysInputs : parseCommand(input).id = "/system" /\ Len(input) > 2}

\* What was typed after the command word and the blanks that end it.
Remainder(input) == SubSeq(input, 3, Len(input))

\* C21: the text /system appends to the system prompt (handed to the
\* backend when a conversation is on display) or queues for it (otherwise)
\* is what was typed after the command word, letter for letter: runs of
\* blanks and line breaks inside it are kept as typed.
C21_SystemTextVerbatim ==
  [][\A input \in SystemLines :
       HandleCommand(input)
         => LET text == IF store.currentConversation # NoConv THEN sysCall'.text
                        ELSE store'.pendingSystem[Len(store'.pendingSystem)]
            IN join(text) = Remainder(input)]_vars

\* The /help lines of SysInputs.
HelpLines == { <<"/help">>, <<"/HELP">> }

\* C22: /help succeeds in every state in which a line can be typed: the
\* command documentation is added to the messages on display and the error
\* is cleared; nothing else changes (selected model, temperature, reasoning,
\* queued system text, current conversation, what is persisted, the poll
\* loops) and no request goes to the backend.
C22_HelpChangesNothing ==
  [][\A input \in HelpLines :
       HandleCommand(input)
         => /\ store' = [store EXCEPT
                           !.messages = Append(@, Message("system", 0, "none",
                                                          Content(<<>>, "help"))),
                           !.error = ""]
            /\ UNCHANGED <<localStorage, models, catalogDefaults, sysCall, polls, pollTimer,
                           req, nreq, exchanges, ledger, prompts>>]_vars

\* /help was typed with a conversation on display, o3 picked and a system
\* text queued on an earlier page of the chat: the documentation is the
\* last message, no error is shown and the rest is as it was.
C22_Witness ==
  /\ store.currentConversation # NoConv
  /\ Len(store.messages) >= 3
  /\ store.messages[Len(store.messages)].content.note = "help"
  /\ store.error = ""
  /\ store.selectedModel = "o3"
  /\ prompts[store.currentConversation] # <<>>

\* The lines of ImageInputs with, for each, whether words remain for the
\* prompt once the key=value words are taken out, and the model and the
\* size it names ("" when it names none).
ImageAsked ==
  { [input |-> <<"/image">>, prompt |-> FALSE, model |-> "", size |-> ""],
    [input |-> <<"/image", " ", "cat">>, prompt |-> TRUE, model |-> "", size |-> ""],
    [input |-> <<"/image", " ", "cat", " ", "model=dall-e-2">>,
     prompt |-> TRUE, model |-> "dall-e-2", size |-> ""],
    [input |-> <<"/image", " ", "size=512x512", " ", "cat">>,
     prompt |-> TRUE, model |-> "", size |-> "512x512"],
    [input |-> <<"/image", " ", "model=gpt-image-1", " ", "size=512x512">>,
     prompt |-> FALSE, model |-> "gpt-image-1", size |-> "512x512"],
    [input |-> <<"/image", " ", "model=">>, prompt |-> FALSE, model |-> "", size |-> ""],
    [input |-> <<"/image", " ", "size=", "  ", "cat", " ", "model=">>,
     prompt |-> TRUE, model |-> "", size |-> ""],
    [input |-> <<"/image", " ", "prompt", " ", "cat">>, prompt |-> TRUE, model |-> "", size |-> ""],
    [input |-> <<"/image", " ", "prompt:", " ", "size=512x512">>,
     prompt |-> TRUE, model |-> "", size |-> "512x512"],
    [input |-> <<"/image", " ", "prompt:cat", " ", "cat">>,
     prompt |-> TRUE, model |-> "", size |-> ""],
    [input |-> <<"/IMAGE", " ", "model=dall-e-2", "\n", "model=gpt-image-1">>,
     prompt |-> FALSE, model |-> "gpt-image-1", size |-> ""] }

EmptyPrompt == "Image prompt cannot be empty."

\* C23: an /image line with a prompt sends one image request, for the
\* model and the size the line names and for dall-e-3 and 1024x1024 where
\* it names none; an /image line of which nothing remains for the prompt
\* is rejected: the error is the only thing that changes, so no placeholder
\* is added, no request is sent and the input is not locked.
C23_ImageDefaultsAndEmptyPrompt ==
  [][\A a \in ImageAsked :
       HandleCommand(a.input)
         => IF a.prompt
              THEN /\ nreq' = nreq + 1
                   /\ req'[nreq'].mode = "image"
                   /\ req'[nreq'].image.prompt # <<>>
                   /\ req'[nreq'].image.model = (IF a.model = "" THEN "dall-e-3" ELSE a.model)
                   /\ req'[nreq'].image.size = (IF a.size = "" THEN "1024x1024" ELSE a.size)
                   /\ req'[nreq'].image.conversation_id = store.currentConversation
              ELSE /\ store' = [store EXCEPT !.error = EmptyPrompt]
                   /\ UNCHANGED <<localStorage, sysCall, polls, pollTimer, req, nreq,
                                  exchanges, ledger, prompts>>]_vars

\* An image was generated for "cat" with the default model and size and is
\* on display; the /image line typed next had no prompt and was rejected:
\* the messages are those of the conversation and the input is not locked.
C23_Witness ==
  /\ store.error = EmptyPrompt
  /\ ~store.isStreaming
  /\ store.currentConversation # NoConv
  /\ store.messages = getConversation(store.currentConversation)
  /\ nreq = 1
  /\ req[1].image = imageBody(<<"cat">>, "dall-e-3", "1024x1024", NoConv)
  /\ req[1].pc = "done"

\* The ids of the catalog in use.
CatalogIds == {models[i].id : i \in 1..Len(models)}

\* C24: every page load ends with a catalog in use, also when the catalog
\* request, the conversation list or the usage read fails: the catalog is
\* never empty, there are defaults and their model is an entry of the
\* catalog, and the selected model is an entry of the catalog, after the
\* load and after every command, pick and new chat that follows; a load
\* whose catalog request failed uses the built-in catalog.
C24_UsableCatalog ==
  /\ [](/\ models # <<>>
        /\ catalogDefaults # NoDefaults
        /\ catalogDefaults.model \in CatalogIds
        /\ store.selectedModel \in CatalogIds)
  /\ [][\A convsOk \in BOOLEAN, usageOk \in BOOLEAN :
          Reload(FALSE, convsOk, usageOk)
            => /\ models' = FallbackCatalog
               /\ catalogDefaults' = FallbackDefaults
               /\ store'.selectedModel = FallbackDefaults.model]_vars

\* The page was loaded without the catalog after o3 had been selected
\* (the level "medium" and the temperature 0 are what the change to o3
\* left): the built-in catalog is in use and its model is selected.
C24_Witness ==
  /\ models = FallbackCatalog
  /\ store.selectedModel = "gpt-5.1"
  /\ localStorage.selectedModel = "gpt-5.1"
  /\ store.reasoning = "medium"
  /\ store.temperature = 0

\* The stored currentConversationId is the id of the conversation on
\* display, absent when there is none.
InSync(st, ls) == ls.currentConversationId = st.currentConversation

\* The page is loaded again.
Reloads ==
  \E catalogOk \in BOOLEAN, convsOk \in BOOLEAN, usageOk \in BOOLEAN :
    Reload(catalogOk, convsOk, usageOk)

Display(st) == <<st.currentConversation, st.messages>>

\* The user has left the conversation of request r: neither its
\* conversation nor its placeholder is on display.
Away(r) == Shown(store, r) = {} /\ store.currentConversation # exchanges[r].conv

\* C26: once the user has switched to another conversation or started a
\* new chat, what arrives for the conversation left behind changes nothing
\* on display: a poll response for a conversation that is not the current
\* one, and a stream completion or stream error of a request whose
\* conversation has been left, leave the conversation on display and its
\* messages as they were.
C26_LateResultsLeaveDisplay ==
  [][/\ \A p \in 1..MaxPolls, ok \in BOOLEAN :
          (PollRead(p, ok) /\ store.currentConversation # polls[p].conv)
            => Display(store') = Display(store)
     /\ \A r \in Reqs, convsOk \in BOOLEAN, ok \in BOOLEAN :
          (OnCompleteGetConversation(r, convsOk, ok) /\ Away(r))
            => Display(store') = Display(store)
     /\ \A r \in Reqs :
          (Away(r) /\ req[r].pc = "reading" /\ req'[r].pc = "failed")
            => Display(store') = Display(store)]_vars

\* The poll loops at work: waiting for their timer or for their read.
ActivePolls == {p \in 1..MaxPolls : polls[p].pc \in {"timer", "fetch"}}

\* C27: at most one poll loop is at work at any time: startPolling ends
\* every loop started before, also one whose read is under way.
C27_OnePollLoop == Cardinality(ActivePolls) <= 1

\* C28: the input lock is always released: whenever the input is locked
\* (isStreaming or systemUpdating) it is unlocked again later, given that
\* every request, stream, timer and generation comes to an end, whichever
\* end: also a stream that closes without done or error event, a read
\* after completion that fails, and reads that fail for a while during
\* polling.
C28_LockReleased == SendDisabled ~> ~SendDisabled

\* C29: store subscribers never see a torn state: at every call of the
\* listeners made while setCurrentConversation(c) runs (here: when the user
\* selects a conversation and its read returns) currentConversation is c
\* and messages is c's list, and at every call made while setUsage runs
\* (loadUsage after a completed message) both summaries are those of that
\* response.  The last call shows the state the method leaves behind.
C29_NoTornState ==
  [][ /\ \A id \in Reqs : HandleSelectConversation(id, TRUE) =>
           LET seen == notifyCurrentConversation(store, id, getConversation(id)) IN
           /\ seen[Len(seen)].currentConversation = store'.currentConversation
           /\ seen[Len(seen)].messages = store'.messages
           /\ \A k \in 1..Len(seen) :
                /\ seen[k].currentConversation = id
                /\ seen[k].messages = getConversation(id)
      /\ \A r \in Reqs : OnCompleteLoadUsage(r, TRUE) =>
           LET seen == notifyUsage(store, getUsageSummary) IN
           /\ seen[Len(seen)].usageOverall = store'.usage
           /\ \A k \in 1..Len(seen) :
                /\ seen[k].usageOverall = getUsageSummary
                /\ seen[k].usageDevice = getUsageSummary
    ]_vars

\* The assistant placeholder added locally for request r is on display in
\* st in a status that is not final.
PlaceholderLeft(st, r) ==
  \E i \in 1..Len(st.messages) :
    /\ st.messages[i].role = "assistant" /\ st.messages[i].ex = r
    /\ st.messages[i].status \in {"pending", "pending-image", "streaming"}

\* C30: when a submission fails (the stream request is rejected, submitChat
\* rejects, generateImage rejects) the placeholder added for it is not left
\* on display as pending, pending-image or streaming: it is marked error or
\* is gone.
C30_FailedPlaceholderEnds ==
  [][\A r \in Reqs :
       (\/ StreamRejected(r)
        \/ \E created \in BOOLEAN : SubmitFailed(r, created)
        \/ ImageFailed(r))
         => ~PlaceholderLeft(store', r)]_vars
====
